---- MODULE Spec2Model ----
(***************************************************************************)
(* claude-recorder: the storage engine (storage.ts), the transcript parser *)
(* (parser.ts) and the multi-session watcher daemon (watcher-daemon.ts).   *)
(*                                                                         *)
(* Eleven specifications share the variables:                             *)
(*   SpecStore    the storage API called with arbitrary arguments;         *)
(*   SpecAtomic   the storage API with insertMessage interrupted between   *)
(*                two of its statements;                                   *)
(*   Spec         the daemon, the host CLI appending to the transcripts,   *)
(*                the hooks editing the registry, crashes, restarts;       *)
(*   SpecWatcher  the single-session watcher (watcher.ts) with its file    *)
(*                change callback and its polling fallback;                *)
(*   SpecHooks    the hook commands, the start and status commands as      *)
(*                processes: registry markers, liveness file, start-ups;   *)
(*   SpecFaults   the daemon with an exception thrown while one session    *)
(*                is processed or finalized;                               *)
(*   SpecParser   parseTranscriptFile on texts of arbitrary lines;         *)
(*   SpecIngest   the daemon on one transcript written in whole lines,     *)
(*                with characters of several bytes, lines that cannot be   *)
(*                stored, and a transcript that is missing;                *)
(*   SpecSession  the daemon and one session through its whole life, its   *)
(*                transcript holding tool calls, tool results and entries  *)
(*                that carry another session id;                           *)
(*   SpecScan     the daemon's scans over one session written in whole     *)
(*                lines, with shutdown, restart and crashes;               *)
(*   SpecIncremental  parseTranscriptIncremental called from the offset it *)
(*                returned before.                                         *)
(***************************************************************************)
EXTENDS Integers, Sequences, FiniteSets, TLC

\* ---------------------------------------------------------------- bounds
MaxTime == 2          \* distinct values `new Date()` / time arguments take
MaxCalls == 4         \* storage API calls in one behaviour of SpecStore
MaxUuids == 2         \* distinct uuids passed to insertMessage in SpecStore
MaxLines == 2         \* lines the host CLI appends over all transcripts
MaxCrashes == 1       \* daemon crashes in one behaviour
MaxDaemons == 2       \* daemon processes spawned in one behaviour of SpecHooks
MaxParseLines == 3    \* lines of the text given to the parser in SpecParser

\* ---------------------------------------------------------------- domains
NULL == <<>>                      \* SQL NULL / JS null; a value v is <<v>>
Some(v) == <<v>>
SessionIds == {"s1", "s2"}
UUIDs == 1..MaxUuids
Times == 1..MaxTime

\* ParsedToolCall (types.ts): id, name, input, output
ToolCallA == [id |-> "toolu_1", name |-> "Bash", input |-> "ls", output |-> NULL]

\* The part of a ParsedMessage besides uuid and sessionId.
Payloads ==
  { [timestamp |-> 1, role |-> "user", textContent |-> "Hi",
     thinkingContent |-> NULL, toolCalls |-> <<>>, model |-> NULL, cwd |-> "/w"],
    [timestamp |-> 2, role |-> "assistant", textContent |-> "Hello!",
     thinkingContent |-> Some("t1"), toolCalls |-> <<ToolCallA>>,
     model |-> Some("m"), cwd |-> "/w2"] }

ParsedMessage(u, s, p) ==
  [uuid |-> u, sessionId |-> s, timestamp |-> p.timestamp, role |-> p.role,
   textContent |-> p.textContent, thinkingContent |-> p.thinkingContent,
   toolCalls |-> p.toolCalls, model |-> p.model, cwd |-> p.cwd]

\* Arguments of upsertSession besides id and startTime.
Metas ==
  { [slug |-> "a", projectPath |-> "/p", workingDir |-> "/w", version |-> "1",
     transcriptPath |-> "/p/s1.jsonl"],
    [slug |-> "b", projectPath |-> "/q", workingDir |-> "/w2", version |-> "2",
     transcriptPath |-> "/p/s2.jsonl"] }

Paths == {"/p/s1.jsonl", "/p/s2.jsonl"}

PathOf(s) == IF s = "s1" THEN "/p/s1.jsonl" ELSE "/p/s2.jsonl"

VARIABLES
  db,        \* the SQLite database recorder.db
  hist,      \* history: first arguments seen per key, and the last call made
  ncalls,    \* storage API calls made so far (SpecStore)
  files,     \* transcript path -> bytes, for the transcripts that exist
  registry,  \* run/sessions: session id -> transcript path (the markers)
  daemon,    \* the daemon process: running, watchedSessions, work left
  obs,       \* history of the daemon's processing runs
  crashes,   \* daemon crashes so far
  watcher,   \* the single-session watcher process (SpecWatcher)
  os,        \* the liveness file run/watcher.pid and the daemon processes
  out        \* what the command or function run last returned

storeVars == <<db, hist, ncalls>>
procVars == <<files, registry, daemon, obs, crashes, watcher, os, out>>
vars == <<db, hist, ncalls, files, registry, daemon, obs, crashes, watcher, os, out>>

\* ------------------------------------------------------- storage engine
\* initializeSchema: the empty tables.  file_positions.last_updated is
\* written but never read and is left out.
EmptyDb ==
  [sessions |-> <<>>, messages |-> <<>>, tool_calls |-> <<>>,
   messages_fts |-> {}, file_positions |-> <<>>]

HasSession(d, id) == id \in DOMAIN d.sessions
HasUuid(d, u) == \E i \in 1..Len(d.messages) : d.messages[i].uuid = u
CountMessages(d, sid) ==
  Cardinality({i \in 1..Len(d.messages) : d.messages[i].session_id = sid})

\* Mutant: INSERT OR REPLACE, which writes a whole new row.
upsertSession_replace(d, id, meta, startTime) ==
  [d EXCEPT !.sessions =
     [x \in DOMAIN d.sessions \cup {id} |->
        IF x = id
        THEN [slug |-> meta.slug, project_path |-> meta.projectPath,
              working_dir |-> meta.workingDir, start_time |-> startTime,
              end_time |-> NULL, message_count |-> 0, version |-> meta.version,
              transcript_path |-> meta.transcriptPath]
        ELSE d.sessions[x]]]

\* INSERT ... ON CONFLICT(id) DO UPDATE SET slug, project_path, working_dir,
\* version, transcript_path
upsertSession(d, id, meta, startTime) ==
  IF HasSession(d, id)
  THEN [d EXCEPT !.sessions[id] =
          [@ EXCEPT !.slug = meta.slug, !.project_path = meta.projectPath,
                    !.working_dir = meta.workingDir, !.version = meta.version,
                    !.transcript_path = meta.transcriptPath]]
  ELSE [d EXCEPT !.sessions = @ @@ (id :>
          [slug |-> meta.slug, project_path |-> meta.projectPath,
           working_dir |-> meta.workingDir, start_time |-> startTime,
           end_time |-> NULL, message_count |-> 0, version |-> meta.version,
           transcript_path |-> meta.transcriptPath])]

\* UPDATE sessions SET end_time = ? WHERE id = ?
endSession(d, id, endTime) ==
  IF HasSession(d, id)
  THEN [d EXCEPT !.sessions[id].end_time = Some(endTime)]
  ELSE d

\* Mutant: INSERT OR REPLACE, which deletes the row of the uuid and adds the
\* new one.
insertMessageRow_replace(d, m) ==
  LET kept == SelectSeq(d.messages, LAMBDA r : r.uuid # m.uuid) IN
  [d EXCEPT
     !.messages = Append(kept,
        [uuid |-> m.uuid, session_id |-> m.sessionId,
         timestamp |-> m.timestamp, role |-> m.role,
         text_content |-> m.textContent,
         thinking_content |-> m.thinkingContent,
         model |-> m.model, cwd |-> m.cwd]),
     !.messages_fts = @ \cup
        {[rowid |-> Len(d.messages) + 1, text_content |-> m.textContent]}]

\* First statement of insertMessage: INSERT OR IGNORE INTO messages; the
\* AFTER INSERT trigger messages_ai adds the row's text to messages_fts.
insertMessageRow(d, m) ==
  IF HasUuid(d, m.uuid)
  THEN d
  ELSE [d EXCEPT
          !.messages = Append(@,
             [uuid |-> m.uuid, session_id |-> m.sessionId,
              timestamp |-> m.timestamp, role |-> m.role,
              text_content |-> m.textContent,
              thinking_content |-> m.thinkingContent,
              model |-> m.model, cwd |-> m.cwd]),
          !.messages_fts = @ \cup
             {[rowid |-> Len(d.messages) + 1, text_content |-> m.textContent]}]

\* Second statement: for each tool call INSERT OR IGNORE INTO tool_calls.
\* The table has no UNIQUE constraint besides its AUTOINCREMENT id, so no
\* insert is ever ignored; the loop runs whether or not the message row was
\* inserted.
insertToolCalls(d, m) ==
  [d EXCEPT !.tool_calls = @ \o
     [i \in 1..Len(m.toolCalls) |->
        [tool_id |-> m.toolCalls[i].id, message_uuid |-> m.uuid,
         session_id |-> m.sessionId, name |-> m.toolCalls[i].name,
         input |-> m.toolCalls[i].input, output |-> m.toolCalls[i].output]]]

\* Mutant: message_count = message_count + 1 on every call.
updateMessageCount_increment(d, m) ==
  IF HasSession(d, m.sessionId)
  THEN [d EXCEPT !.sessions[m.sessionId].message_count = @ + 1]
  ELSE d

\* Third statement: UPDATE sessions SET message_count = (SELECT COUNT(*) ...)
updateMessageCount(d, m) ==
  IF HasSession(d, m.sessionId)
  THEN [d EXCEPT !.sessions[m.sessionId].message_count =
                    CountMessages(d, m.sessionId)]
  ELSE d

insertMessage(d, m) ==
  updateMessageCount(insertToolCalls(insertMessageRow(d, m), m), m)

getFilePosition(d, path) ==
  IF path \in DOMAIN d.file_positions THEN d.file_positions[path] ELSE 0

setFilePosition(d, path, position) ==
  IF path \in DOMAIN d.file_positions
  THEN [d EXCEPT !.file_positions[path] = position]
  ELSE [d EXCEPT !.file_positions = @ @@ (path :> position)]

\* ------------------------------------------------------------ transcripts
\* A transcript is a sequence of bytes.  The host CLI writes one JSON object
\* per line; the line of entry l is abstracted to three bytes: a first part
\* (an unterminated JSON text), a second part completing the object, and the
\* newline.  JSON.parse accepts exactly the two parts of one line together.
\* A line is described by its uuid, type and sessionId and by its body:
\*   "plain"      a string for a user entry; thinking, text and the tool_use
\*                toolu_1 for an assistant entry; no message for another type
\*   "result"     the tool_result of toolu_1 with a string content
\*   "structured" the tool_result of toolu_1 with an array as content
\*   "nomessage"  an entry without message
\*   "null"       the JSON text null
\*   "wide"       a string holding a character of more than one byte
\*   "badtime"    as "plain", without timestamp
\*   "blocks"     thinking, text and the tool_use toolu_1, whatever the type
\*   "twotexts", "emptyfirst", "emptymiddle"   text segments, see ContentOf
\* The second part of a "wide" line ends with the lead byte of its character
\* of more than one byte; a byte of part 3 holds the bytes following it.
NoLine == [uuid |-> 0, type |-> "", sessionId |-> "", body |-> ""]
NL == [line |-> NoLine, part |-> 0]
LineBytes(l) ==
  IF l.body = "wide"
  THEN <<[line |-> l, part |-> 1], [line |-> l, part |-> 2], [line |-> l, part |-> 3], NL>>
  ELSE <<[line |-> l, part |-> 1], [line |-> l, part |-> 2], NL>>

\* U+FFFD, which stands for a byte sequence that is not UTF-8.
Replacement == [line |-> NoLine, part |-> 4]

\* buffer.toString("utf-8"): the characters of a sequence of bytes.  A lead
\* byte and the bytes following it make one character, written as the
\* second part of the line; alone, each of them decodes to U+FFFD.
RECURSIVE toString(_)
toString(bytes) ==
  IF bytes = <<>> THEN <<>>
  ELSE LET b == Head(bytes) IN
       IF b.part = 2 /\ b.line.body = "wide"
       THEN IF Len(bytes) > 1 /\ bytes[2] = [line |-> b.line, part |-> 3]
            THEN <<b>> \o toString(Tail(Tail(bytes)))
            ELSE <<Replacement>> \o toString(Tail(bytes))
       ELSE IF b.part = 3 THEN <<Replacement>> \o toString(Tail(bytes))
       ELSE <<b>> \o toString(Tail(bytes))

\* buffer.subarray(start)
subarray(buffer, start) == SubSeq(buffer, start + 1, Len(buffer))

\* Mutant: the file is decoded first and sliced by characters,
\* content.slice(position).
NewContent_chars(buffer, position) == subarray(toString(buffer), position)

\* const newContent = buffer.subarray(position).toString("utf-8")
NewContent(buffer, position) == toString(subarray(buffer, position))

\* new Date(entry.timestamp) of an entry without timestamp: Invalid Date
InvalidDate == 0
LineTypes == {"assistant", "file-history-snapshot"}

\* ContentBlock (types.ts)
Block(type, text, id, ref) == [type |-> type, text |-> text, id |-> id, ref |-> ref]
TextBlock(t) == Block("text", t, "", "")
ThinkingBlock(t) == Block("thinking", t, "", "")
ToolUseBlock(id, name) == Block("tool_use", name, id, "")
ToolResultBlock(ref, content) == Block("tool_result", content, "", ref)

\* TranscriptEntry (types.ts) of a complete line.  content is <<"string", s>>
\* for a plain string and <<"array", blocks>> for content blocks; so is the
\* content of a tool_result block.  value tells the JSON value null from an
\* object.
\* message.content of the line l.
ContentOf(l) ==
  CASE l.body = "result" ->
         <<"array", <<ToolResultBlock("toolu_1", <<"string", "out">>)>> >>
    [] l.body = "structured" ->
         <<"array", <<ToolResultBlock("toolu_1", <<"array", <<"a", "b">> >>)>> >>
    [] l.body = "wide" -> <<"string", "Hello <U+1F44B>">>
    [] l.body = "twotexts" ->
         <<"array", <<TextBlock("a"), ThinkingBlock("t1"), TextBlock("b")>> >>
    [] l.body = "emptyfirst" -> <<"array", <<TextBlock(""), TextBlock("b")>> >>
    [] l.body = "emptymiddle" ->
         <<"array", <<TextBlock("a"), TextBlock(""), TextBlock("b")>> >>
    [] l.body # "blocks" /\ l.type = "user" -> <<"string", "Hi">>
    [] OTHER -> <<"array", <<ThinkingBlock("t1"), TextBlock("Hello!"),
                             ToolUseBlock("toolu_1", "Bash")>> >>

EntryOf(l) ==
  [value |-> IF l.body = "null" THEN "null" ELSE "object",
   type |-> l.type, uuid |-> l.uuid, sessionId |-> l.sessionId,
   timestamp |-> IF l.body = "badtime" THEN InvalidDate ELSE 1,
   cwd |-> "/w", version |-> "2.0.76", slug |-> "a",
   message |->
     IF l.type \notin {"user", "assistant"} \/ l.body \in {"nomessage", "null"}
     THEN NULL
     ELSE Some([role |-> l.type,
                model |-> IF l.type = "assistant" THEN Some("m") ELSE NULL,
                content |-> ContentOf(l)])]

\* Reading a property of the parsed value throws a TypeError for null.
Throws(entry) == entry.value = "null"

\* JSON.stringify of an array of strings.
RECURSIVE JSONelements(_)
JSONelements(a) ==
  IF a = <<>> THEN ""
  ELSE "\"" \o Head(a) \o "\"" \o (IF Len(a) > 1 THEN "," ELSE "") \o JSONelements(Tail(a))
JSONstringify(a) == "[" \o JSONelements(a) \o "]"

\* typeof block.content === "string" ? block.content : JSON.stringify(block.content)
resultContent(content) ==
  IF content[1] = "string" THEN content[2] ELSE JSONstringify(content[2])

\* JSON.parse(line): <<entry>>, or NULL when it throws.
JSONparse(seg) ==
  IF Len(seg) = 2 /\ seg[1].part = 1 /\ seg[2].part = 2 /\ seg[1].line = seg[2].line
  THEN Some(EntryOf(seg[1].line))
  ELSE NULL

\* content.trim().split("\n").filter(Boolean)
RECURSIVE SplitLines(_, _)
SplitLines(content, acc) ==
  IF content = <<>>
  THEN IF acc = <<>> THEN <<>> ELSE <<acc>>
  ELSE IF Head(content) = NL
       THEN (IF acc = <<>> THEN <<>> ELSE <<acc>>) \o SplitLines(Tail(content), <<>>)
       ELSE SplitLines(Tail(content), Append(acc, Head(content)))

Lines(content) == SplitLines(content, <<>>)

\* First pass of parseTranscriptContent: tool_use_id -> result content, the
\* last result winning (Map.set).
RECURSIVE BlockResults(_, _)
BlockResults(blocks, map) ==
  IF blocks = <<>> THEN map
  ELSE LET b == Head(blocks) IN
       BlockResults(Tail(blocks),
         IF b.type = "tool_result"
         THEN [x \in DOMAIN map \cup {b.ref} |->
                 IF x = b.ref THEN resultContent(b.text) ELSE map[x]]
         ELSE map)

RECURSIVE collectToolResults(_, _)
collectToolResults(lines, map) ==
  IF lines = <<>> THEN map
  ELSE LET e == JSONparse(Head(lines)) IN
       collectToolResults(Tail(lines),
         IF e # NULL /\ ~Throws(e[1])
            /\ e[1].type = "assistant" /\ e[1].message # NULL
            /\ e[1].message[1].content[1] = "array"
         THEN BlockResults(e[1].message[1].content[2], map)
         ELSE map)

\* The switch over the blocks of an assistant entry in parseEntry.
RECURSIVE parseBlocks(_, _, _)
parseBlocks(blocks, acc, toolResults) ==
  IF blocks = <<>> THEN acc
  ELSE LET b == Head(blocks) IN
       parseBlocks(Tail(blocks),
         IF b.type = "text"
         THEN [acc EXCEPT !.textContent =
                 IF @ = "" THEN b.text ELSE @ \o "\n" \o b.text]
         ELSE IF b.type = "thinking"
         THEN [acc EXCEPT !.thinkingContent = Some(b.text)]
         ELSE IF b.type = "tool_use"
         THEN [acc EXCEPT !.toolCalls = Append(@,
                 [id |-> b.id, name |-> b.text, input |-> "{}",
                  output |-> IF b.id \in DOMAIN toolResults
                             THEN Some(toolResults[b.id]) ELSE NULL])]
         ELSE acc,
         toolResults)

\* Mutant: an entry without text yields no message.
parseEntry_text(entry, toolResults) ==
  IF entry.message = NULL THEN NULL
  ELSE LET msg == entry.message[1]
           empty == [textContent |-> "", thinkingContent |-> NULL, toolCalls |-> <<>>]
           c == IF msg.content[1] = "string"
                THEN [empty EXCEPT !.textContent = msg.content[2]]
                ELSE parseBlocks(msg.content[2], empty, toolResults)
       IN IF c.textContent = "" THEN NULL
          ELSE Some([uuid |-> entry.uuid, sessionId |-> entry.sessionId,
                     timestamp |-> entry.timestamp, role |-> msg.role,
                     textContent |-> c.textContent,
                     thinkingContent |-> c.thinkingContent,
                     toolCalls |-> c.toolCalls, model |-> msg.model,
                     cwd |-> entry.cwd])

\* parseEntry: <<message>>, or NULL for an entry without a message body.
parseEntry(entry, toolResults) ==
  IF entry.message = NULL THEN NULL
  ELSE LET msg == entry.message[1]
           empty == [textContent |-> "", thinkingContent |-> NULL, toolCalls |-> <<>>]
           c == IF msg.content[1] = "string"
                THEN [empty EXCEPT !.textContent = msg.content[2]]
                ELSE parseBlocks(msg.content[2], empty, toolResults)
       IN Some([uuid |-> entry.uuid, sessionId |-> entry.sessionId,
                timestamp |-> entry.timestamp, role |-> msg.role,
                textContent |-> c.textContent,
                thinkingContent |-> c.thinkingContent,
                toolCalls |-> c.toolCalls, model |-> msg.model,
                cwd |-> entry.cwd])

\* Mutant: one try block around the whole loop.
RECURSIVE buildMessages_abort(_, _)
buildMessages_abort(lines, toolResults) ==
  IF lines = <<>> THEN <<>>
  ELSE LET e == JSONparse(Head(lines)) IN
       IF e = NULL \/ Throws(e[1]) THEN <<>>
       ELSE IF e[1].type # "user" /\ e[1].type # "assistant"
       THEN buildMessages_abort(Tail(lines), toolResults)
       ELSE parseEntry(e[1], toolResults) \o buildMessages_abort(Tail(lines), toolResults)

\* Second pass of parseTranscriptContent: a line that throws is skipped.
RECURSIVE buildMessages(_, _)
buildMessages(lines, toolResults) ==
  IF lines = <<>> THEN <<>>
  ELSE LET e == JSONparse(Head(lines))
           rest == buildMessages(Tail(lines), toolResults)
       IN IF e = NULL \/ Throws(e[1]) THEN rest
          ELSE IF e[1].type # "user" /\ e[1].type # "assistant" THEN rest
          ELSE parseEntry(e[1], toolResults) \o rest

parseTranscriptContent(content) ==
  buildMessages(Lines(content), collectToolResults(Lines(content), <<>>))

\* getSessionMetadata of an existing file: <<metadata>> of the first entry of
\* type user or assistant, or NULL.
RECURSIVE firstMessageEntry(_)
firstMessageEntry(lines) ==
  IF lines = <<>> THEN NULL
  ELSE LET e == JSONparse(Head(lines)) IN
       IF e # NULL /\ ~Throws(e[1]) /\ e[1].type \in {"user", "assistant"} THEN e
       ELSE firstMessageEntry(Tail(lines))

getSessionMetadata(content, transcriptPath) ==
  LET e == firstMessageEntry(Lines(content)) IN
  IF e = NULL THEN NULL
  ELSE Some([sessionId |-> e[1].sessionId,
             meta |-> [slug |-> e[1].slug, projectPath |-> "/p",
                       workingDir |-> e[1].cwd, version |-> e[1].version,
                       transcriptPath |-> transcriptPath]])

\* ------------------------------------------- the storage API, any caller
\* hist.firstMessage[u]: argument of the first insertMessage call with uuid u
\* hist.reinserted:      uuids passed again with another argument than the first
\* hist.firstStart[id]:  startTime of the first upsertSession call for id
\* hist.restarted:       ids passed to upsertSession again with another startTime
\* hist.last:            the call made last
NoCall == [op |-> "none", id |-> NULL]
EmptyHist ==
  [firstMessage |-> [u \in UUIDs |-> NULL], reinserted |-> {},
   firstStart |-> [id \in SessionIds |-> NULL], restarted |-> {},
   last |-> NoCall]

NoteUpsert(h, id, t) ==
  [h EXCEPT !.firstStart[id] = IF @ = NULL THEN Some(t) ELSE @,
            !.restarted = IF h.firstStart[id] \notin {NULL, Some(t)}
                          THEN @ \cup {id} ELSE @,
            !.last = [op |-> "upsertSession", id |-> Some(id)]]
NoteEnd(h, id) == [h EXCEPT !.last = [op |-> "endSession", id |-> Some(id)]]
NoteInsert(h, m) ==
  [h EXCEPT !.firstMessage[m.uuid] = IF @ = NULL THEN Some(m) ELSE @,
            !.reinserted = IF h.firstMessage[m.uuid] \notin {NULL, Some(m)}
                           THEN @ \cup {m.uuid} ELSE @,
            !.last = [op |-> "insertMessage", id |-> Some(m.sessionId)]]

DaemonDown == [running |-> FALSE, watchedSessions |-> <<>>, todo |-> <<>>]
HostSessions == {"s1"}     \* the sessions the host CLI opens
\* let state: WatcherState | null, and whether fs.watch is set up
WatcherDown == [state |-> NULL, watching |-> FALSE]
\* os.pidFile  the pid written in run/watcher.pid, NULL when there is no file
\* os.procs    where each daemon process of SpecHooks is in startDaemon
Pids == 1..MaxDaemons
NoProcess == [pidFile |-> NULL, procs |-> [p \in Pids |-> "none"]]
\* obs.lastRun[p] the last processTranscript run on p that completed since the
\*                daemon last crashed: what it read and what it changed
\* obs.partial    uuids of the lines some run read while only their first
\*                part was written
\* obs.crashed    the batch of the run a crash interrupted
\* obs.ended      the watched sessions the scan under way, or last made, found
\*                without marker
\* obs.closed     the sessions this daemon finalized and has not discovered
\*                again since
\* obs.events     the operations made since that scan started on the sessions
\*                of obs.ended, obs.closed and obs.due
\* obs.listed     the markers the last readdirSync of the running daemon returned
\* obs.flash      the sessions registered after that readdirSync and
\*                unregistered since, the daemon running all the while
\* obs.due        obs.flash as it was when the tick under way, or made last,
\*                started
\* obs.fault      the fault raised in the daemon (SpecFaults): in which step,
\*                whether the process died of it, and the other sessions whose
\*                steps of that tick were not made
\* obs.down[p]    the size of p when the daemon stopped running, while it is
\*                stopped
\* obs.offline    the uuids of the user/assistant lines written, from first to
\*                last byte, while the daemon was last stopped
\* obs.removed    the transcripts that were deleted (SpecIngest)
\* obs.missing    the transcripts a processTranscript run did not find
EmptyObs ==
  [lastRun |-> [p \in Paths |-> NULL], partial |-> {},
   crashed |-> NULL, ended |-> {}, closed |-> {}, events |-> <<>>,
   listed |-> {}, flash |-> {}, due |-> {},
   down |-> [p \in Paths |-> 0], offline |-> {}, fault |-> NULL,
   removed |-> {}, missing |-> {}]

StoreInit ==
  /\ db = EmptyDb
  /\ hist = EmptyHist
  /\ ncalls = 0
  /\ files = <<>>
  /\ registry = <<>>
  /\ daemon = DaemonDown
  /\ obs = EmptyObs
  /\ crashes = 0
  /\ watcher = WatcherDown
  /\ os = NoProcess
  /\ out = NULL

UpsertSessionCall ==
  \E id \in SessionIds, meta \in Metas, t \in Times :
    /\ ncalls < MaxCalls
    /\ db' = upsertSession(db, id, meta, t)
    /\ hist' = NoteUpsert(hist, id, t)
    /\ ncalls' = ncalls + 1
    /\ UNCHANGED procVars

EndSessionCall ==
  \E id \in SessionIds, t \in Times :
    /\ ncalls < MaxCalls
    /\ db' = endSession(db, id, t)
    /\ hist' = NoteEnd(hist, id)
    /\ ncalls' = ncalls + 1
    /\ UNCHANGED procVars

InsertMessageCall ==
  \E u \in UUIDs, s \in SessionIds, p \in Payloads :
    LET m == ParsedMessage(u, s, p) IN
    /\ ncalls < MaxCalls
    /\ db' = insertMessage(db, m)
    /\ hist' = NoteInsert(hist, m)
    /\ ncalls' = ncalls + 1
    /\ UNCHANGED procVars

StoreNext ==
  \/ UpsertSessionCall
  \/ EndSessionCall
  \/ InsertMessageCall

SpecStore == StoreInit /\ [][StoreNext]_vars

\* ------------------------------------------- insertMessage, interrupted
\* SpecAtomic: insertMessage runs its statements one db.run() at a time, with
\* no transaction around them, so that each is committed on its own.  The
\* process may die, or a statement may throw, after any of them.
\* The first k statements of insertMessage(m): the message row, one row per
\* tool call, the message count.
insertMessagePrefix(d, m, k) ==
  LET row == IF k >= 1 THEN insertMessageRow(d, m) ELSE d
      calls == IF k - 1 < Len(m.toolCalls) THEN k - 1 ELSE Len(m.toolCalls)
      tools == IF k >= 2
               THEN insertToolCalls(row, [m EXCEPT !.toolCalls = SubSeq(@, 1, calls)])
               ELSE row
  IN IF k >= Len(m.toolCalls) + 2 THEN updateMessageCount(tools, m) ELSE tools

\* insertMessage(m) interrupted after its first k statements, one at least
\* being left.
InsertMessageInterrupted ==
  \E u \in UUIDs, s \in SessionIds, p \in Payloads :
    LET m == ParsedMessage(u, s, p) IN
    \E k \in 0..(Len(m.toolCalls) + 1) :
      /\ ncalls < MaxCalls
      /\ db' = insertMessagePrefix(db, m, k)
      /\ hist' = IF k >= 1 THEN NoteInsert(hist, m) ELSE hist
      /\ ncalls' = ncalls + 1
      /\ out' = Some([cmd |-> "insertMessage", message |-> m, before |-> db,
                      call |-> ncalls + 1])
      /\ UNCHANGED <<files, registry, daemon, obs, crashes, watcher, os>>

AtomicNext ==
  \/ UpsertSessionCall
  \/ InsertMessageCall
  \/ InsertMessageInterrupted

SpecAtomic == StoreInit /\ [][AtomicNext]_vars


\* ------------------------------------------------------------ environment
FileExists(p) == p \in DOMAIN files
Last(c) == c[Len(c)]
LinesStarted ==
  Cardinality({x \in (DOMAIN files) \X (1..(4 * MaxLines)) :
                 x[2] <= Len(files[x[1]]) /\ files[x[1]][x[2]].part = 1})
WriteFile(p, c) == [q \in DOMAIN files \cup {p} |-> IF q = p THEN c ELSE files[q]]

\* The host CLI of session s appends the next byte to its transcript p,
\* creating the file with the first byte.  The k-th line written carries the
\* fresh uuid k.
AppendByte(s, p) ==
  LET c == IF FileExists(p) THEN files[p] ELSE <<>> IN
  IF c # <<>> /\ Last(c).part = 1
  THEN files' = WriteFile(p, Append(c, [line |-> Last(c).line, part |-> 2]))
  ELSE IF c # <<>> /\ Last(c).part = 2
  THEN files' = WriteFile(p, Append(c, NL))
  ELSE /\ LinesStarted < MaxLines
       /\ \E t \in LineTypes :
            files' = WriteFile(p, Append(c,
               [line |-> [uuid |-> LinesStarted + 1, type |-> t, sessionId |-> s,
                          body |-> "plain"],
                part |-> 1]))

\* The host CLI writes while its session is open, that is, registered.
HostAppend(s) ==
  /\ s \in DOMAIN registry
  /\ AppendByte(s, registry[s])
  /\ UNCHANGED <<os, out, watcher, db, hist, ncalls, registry, daemon, obs, crashes>>

\* Mutant: an existing marker is kept as it is.
registerSession_keep(reg, sessionId, transcriptPath) ==
  [x \in DOMAIN reg \cup {sessionId} |->
     IF x \in DOMAIN reg THEN reg[x] ELSE transcriptPath]

\* registerSession (start-signal hook): writeFileSync of the marker.
registerSession(reg, sessionId, transcriptPath) ==
  [x \in DOMAIN reg \cup {sessionId} |->
     IF x = sessionId THEN transcriptPath ELSE reg[x]]

\* unregisterSession (end-signal hook): unlink the marker if it exists.
unregisterSession(reg, sessionId) ==
  [x \in DOMAIN reg \ {sessionId} |-> reg[x]]

RegisterSession(s) ==
  /\ registry' = registerSession(registry, s, PathOf(s))
  /\ obs' = [obs EXCEPT !.flash = @ \ {s}, !.due = @ \ {s}]
  /\ UNCHANGED <<os, out, watcher, db, hist, ncalls, files, daemon, crashes>>

UnregisterSession(s) ==
  /\ s \in DOMAIN registry
  /\ registry' = unregisterSession(registry, s)
  /\ obs' = IF /\ daemon.running
               /\ s \notin obs.listed
               /\ \A i \in DOMAIN daemon.watchedSessions :
                    daemon.watchedSessions[i].sessionId # s
            THEN [obs EXCEPT !.flash = @ \cup {s}]
            ELSE obs
  /\ UNCHANGED <<os, out, watcher, db, hist, ncalls, files, daemon, crashes>>

\* ------------------------------------------------------------ the daemon
\* The daemon is one single-threaded process.  Its work is a list of steps,
\* each up to its next read of the registry or of a transcript; the host CLI
\* and the hooks run between two steps.  A step runs a list of database
\* statements, each committed on its own; a crash ends the daemon between two
\* steps or between two statements of a step.
Task(op, sid, path, msg, size) ==
  [op |-> op, sid |-> sid, path |-> path, msg |-> msg, size |-> size]
WatchedSession(id, path) ==
  [sessionId |-> id, transcriptPath |-> path, projectPath |-> "/p"]
WatchedIds(watched) == {watched[i].sessionId : i \in 1..Len(watched)}
Orders(S) == {f \in [1..Cardinality(S) -> S] : \A i, j \in DOMAIN f : f[i] = f[j] => i = j}
Range(f) == {f[i] : i \in DOMAIN f}

\* Mutant: scanForSessions without its second loop.
ScanTasks_keep(order, watched) ==
  LET new == SelectSeq(order, LAMBDA id : id \notin WatchedIds(watched))
  IN [i \in 1..Len(new) |-> Task("discover", new[i], "", NULL, 0)]

\* scanForSessions(files = order): the markers not yet watched are discovered,
\* then the watched sessions without marker are finalized.
ScanTasks(order, watched) ==
  LET new == SelectSeq(order, LAMBDA id : id \notin WatchedIds(watched))
      ended == SelectSeq(watched, LAMBDA w : w.sessionId \notin Range(order))
  IN [i \in 1..Len(new) |-> Task("discover", new[i], "", NULL, 0)]
     \o [i \in 1..Len(ended) |->
           Task("finalize", ended[i].sessionId, ended[i].transcriptPath, NULL, 0)]

\* for (const session of watchedSessions.values()) processTranscript(session)
PollTasks(watched) ==
  [i \in 1..Len(watched) |->
     Task("process", watched[i].sessionId, watched[i].transcriptPath, NULL, 0)]

\* Mutant: the sessions to poll are listed before the scan.
TickTasks_stale(order, watched) ==
  ScanTasks(order, watched) \o PollTasks(watched)

\* The poll callback: scanForSessions(), then every session watched after it.
TickTasks(order, watched) ==
  ScanTasks(order, watched) \o <<Task("pollAll", "", "", NULL, 0)>>

\* Mutant: the liveness file is removed and the process exits first.
ShutdownTasks_exitFirst(watched) ==
  <<Task("exit", "", "", NULL, 0)>>
  \o [i \in 1..Len(watched) |->
       Task("shutdownSession", watched[i].sessionId, watched[i].transcriptPath, NULL, 0)]

\* shutdown: processTranscript and endSession for every watched session,
\* then removePidFile and exit.
ShutdownTasks(watched) ==
  [i \in 1..Len(watched) |->
     Task("shutdownSession", watched[i].sessionId, watched[i].transcriptPath, NULL, 0)]
  \o <<Task("exit", "", "", NULL, 0)>>

\* Mutant: the length of the new bytes, newBuffer.length.
NewPosition_tail(position, currentSize) == currentSize - position

\* The offset processTranscript stores: buffer.length.
NewPosition(position, currentSize) == currentSize

\* Mutant: the offset is stored before the messages.
ProcessTasks_offsetFirst(messages, path, size) ==
  <<Task("setpos", "", path, NULL, size)>>
  \o [i \in 1..Len(messages) |-> Task("insert", "", path, Some(messages[i]), 0)]

\* processTranscript after parsing: insertMessage for every message, then
\* setFilePosition.
ProcessTasks(messages, path, size) ==
  [i \in 1..Len(messages) |-> Task("insert", "", path, Some(messages[i]), 0)]
  \o <<Task("setpos", "", path, NULL, size)>>

\* Mutant: a transcript that is missing is taken to have been rewritten, and
\* its offset is set back to 0.
processTranscript_reset(d, buffer, path) ==
  IF buffer = NULL THEN <<Task("setpos", "", path, NULL, 0)>>
  ELSE LET position == getFilePosition(d, path)
           currentSize == Len(buffer[1])
       IN IF currentSize <= position THEN <<>>
          ELSE ProcessTasks(
                 parseTranscriptContent(NewContent(buffer[1], position)),
                 path, NewPosition(position, currentSize))

\* The statements processTranscript runs on the database d when the
\* transcript at path holds buffer (NULL: no such file).
processTranscript(d, buffer, path) ==
  IF buffer = NULL THEN <<>>
  ELSE LET position == getFilePosition(d, path)
           currentSize == Len(buffer[1])
       IN IF currentSize <= position THEN <<>>
          ELSE ProcessTasks(
                 parseTranscriptContent(NewContent(buffer[1], position)),
                 path, NewPosition(position, currentSize))

Statement(d, st) ==
  IF st.op = "insert" THEN insertMessage(d, st.msg[1])
  ELSE setFilePosition(d, st.path, st.size)

RECURSIVE Run(_, _)
Run(d, stmts) == IF stmts = <<>> THEN d ELSE Run(Statement(d, Head(stmts)), Tail(stmts))

ReadFile(path) == IF path \in DOMAIN files THEN Some(files[path]) ELSE NULL

\* What a completed processTranscript run on path is remembered by: the
\* bytes it read, what triggered it and, when the run before it on this path
\* read the same bytes, what it changed.
NoteRun(o, path, buffer, before, after, by) ==
  IF buffer = NULL THEN o
  ELSE [o EXCEPT
          !.lastRun[path] =
             Some([size |-> Len(buffer[1]), by |-> by,
                   again |-> IF o.lastRun[path] # NULL
                                /\ o.lastRun[path][1].size = Len(buffer[1])
                             THEN Some([newMessages |->
                                          Len(after.messages) - Len(before.messages),
                                        positionBefore |-> getFilePosition(before, path),
                                        positionAfter |-> getFilePosition(after, path),
                                        after |-> o.lastRun[path][1].by])
                             ELSE NULL]),
          !.partial = IF Len(buffer[1]) > getFilePosition(before, path)
                         /\ buffer[1][Len(buffer[1])].part = 1
                      THEN @ \cup {buffer[1][Len(buffer[1])].line.uuid}
                      ELSE @]

\* The operations made on a session that the scan found ended, or that was
\* closed before.
NoteOps(o, ops, sid) ==
  IF sid \in o.ended \cup o.closed \cup o.due
  THEN [o EXCEPT !.events = @ \o [i \in 1..Len(ops) |-> [op |-> ops[i], sid |-> sid]]]
  ELSE o

StartScan(o, order, watched) ==
  [o EXCEPT !.ended = WatchedIds(watched) \ Range(order), !.events = <<>>,
            !.listed = Range(order), !.due = o.flash, !.flash = {}]

\* The sizes of the transcripts.
Sizes == [p \in Paths |-> IF p \in DOMAIN files THEN Len(files[p]) ELSE 0]

\* The uuids of the user/assistant lines of which both parts lie after the
\* first from[p] bytes of their transcript p.
WrittenSince(from) ==
  UNION {{files[p][i].line.uuid :
            i \in {j \in (from[p] + 1)..(Len(files[p]) - 1) :
                     /\ files[p][j].part = 1 /\ files[p][j + 1].part = 2
                     /\ files[p][j].line.type \in {"user", "assistant"}}} :
         p \in DOMAIN files}

\* watchedSessions.set(sessionId, session)
Watch_skip(watched, id, path) == watched

Watch(watched, id, path) == Append(watched, WatchedSession(id, path))

\* process.pid of the daemon process of Spec
DaemonPid == 1

\* The work left after a step: the loop of the poll callback starts with the
\* sessions watched when the scan has returned.
Continue(todo, watched) ==
  IF todo # <<>> /\ Head(todo).op = "pollAll"
  THEN PollTasks(watched) \o Tail(todo)
  ELSE todo

Idle == daemon.running /\ daemon.todo = <<>>
Busy == daemon.running /\ daemon.todo # <<>>
NextTask == Head(daemon.todo)
RemoveWatched(watched, id) == SelectSeq(watched, LAMBDA w : w.sessionId # id)

Init == StoreInit

\* startDaemon in a new process while no daemon is alive: isDaemonRunning()
\* is false and removes a stale liveness file, then getDatabase(),
\* writePidFile() and the readdirSync of the initial scan.
StartDaemon ==
  /\ ~daemon.running
  /\ \E order \in Orders(DOMAIN registry) :
       /\ daemon' = [running |-> TRUE, watchedSessions |-> <<>>,
                     todo |-> ScanTasks(order, <<>>)]
       /\ obs' = [StartScan(obs, order, <<>>) EXCEPT
                    !.lastRun = [p \in Paths |-> NULL],
                    !.down = [p \in Paths |-> 0], !.offline = WrittenSince(obs.down)]
  /\ os' = [os EXCEPT !.pidFile = Some(DaemonPid)]
  /\ UNCHANGED <<out, watcher, db, hist, ncalls, files, registry, crashes>>

\* The setInterval callback.
Tick ==
  /\ Idle
  /\ \E order \in Orders(DOMAIN registry) :
       /\ daemon' = [daemon EXCEPT !.todo =
            Continue(TickTasks(order, daemon.watchedSessions), daemon.watchedSessions)]
       /\ obs' = StartScan(obs, order, daemon.watchedSessions)
  /\ UNCHANGED <<os, out, watcher, db, hist, ncalls, files, registry, crashes>>

\* The SIGTERM / SIGINT / SIGHUP handler.
Shutdown ==
  /\ Idle
  /\ daemon' = [daemon EXCEPT !.todo = ShutdownTasks(daemon.watchedSessions)]
  /\ obs' = [obs EXCEPT !.ended = {}, !.events = <<>>]
  /\ UNCHANGED <<os, out, watcher, db, hist, ncalls, files, registry, crashes>>

\* The body of the first loop of scanForSessions for the marker of id, up to
\* watchedSessions.set; its processTranscript is the next step.
Discover ==
  /\ Busy /\ NextTask.op = "discover"
  /\ LET id == NextTask.sid IN
     IF id \notin DOMAIN registry \/ registry[id] \notin DOMAIN files
     THEN \* the marker was removed after readdirSync (caught), or the
          \* transcript does not exist (continue)
          /\ daemon' = [daemon EXCEPT !.todo = Continue(Tail(@), daemon.watchedSessions)]
          /\ UNCHANGED <<db, obs>>
     ELSE LET path == registry[id]
              metadata == getSessionMetadata(files[path], path)
          IN /\ \E now \in Times :
                  db' = IF metadata = NULL THEN db
                        ELSE upsertSession(db, metadata[1].sessionId,
                                           metadata[1].meta, now)
             /\ daemon' = [daemon EXCEPT
                  !.watchedSessions = Watch(@, id, path),
                  !.todo = <<Task("initial", id, path, NULL, 0)>> \o Tail(@)]
             /\ obs' = [obs EXCEPT !.closed = @ \ {id}]
  /\ UNCHANGED <<os, out, watcher, hist, ncalls, files, registry, crashes>>

\* processTranscript(session), in the first loop of scanForSessions
\* ("initial", inside its try block) and in the poll callback ("process").
ProcessTranscript ==
  /\ Busy /\ NextTask.op \in {"initial", "process"}
  /\ LET path == NextTask.path
         buffer == ReadFile(path)
     IN /\ db' = Run(db, processTranscript(db, buffer, path))
        /\ daemon' = [daemon EXCEPT !.todo = Continue(Tail(@), daemon.watchedSessions)]
        /\ obs' = NoteRun(NoteOps(obs, <<"process">>, NextTask.sid),
                          path, buffer, db, db', "poll")
  /\ UNCHANGED <<os, out, watcher, hist, ncalls, files, registry, crashes>>

\* Second loop of scanForSessions for a watched session without marker:
\* processTranscript(session); endSession(sessionId, new Date());
\* watchedSessions.delete(sessionId)
Finalize ==
  /\ Busy /\ NextTask.op = "finalize"
  /\ LET path == NextTask.path
         id == NextTask.sid
         buffer == ReadFile(path)
         after == Run(db, processTranscript(db, buffer, path))
         watched == RemoveWatched(daemon.watchedSessions, id)
     IN /\ \E now \in Times : db' = endSession(after, id, now)
        /\ daemon' = [daemon EXCEPT !.watchedSessions = watched,
                                    !.todo = Continue(Tail(@), watched)]
        /\ obs' = [NoteRun(NoteOps(obs, <<"process", "endSession", "delete">>, id),
                           path, buffer, db, after, "poll")
                     EXCEPT !.closed = @ \cup {id}]
  /\ UNCHANGED <<os, out, watcher, hist, ncalls, files, registry, crashes>>

\* shutdown, for one watched session: processTranscript(session);
\* endSession(session.sessionId, new Date())
ShutdownSession ==
  /\ Busy /\ NextTask.op = "shutdownSession"
  /\ LET path == NextTask.path
         id == NextTask.sid
         buffer == ReadFile(path)
         after == Run(db, processTranscript(db, buffer, path))
     IN /\ \E now \in Times : db' = endSession(after, id, now)
        /\ daemon' = [daemon EXCEPT !.todo = Tail(@)]
        /\ obs' = NoteRun(NoteOps(obs, <<"process", "endSession">>, id),
                          path, buffer, db, after, "shutdown")
  /\ UNCHANGED <<os, out, watcher, hist, ncalls, files, registry, crashes>>

\* shutdown: removePidFile(); process.exit(0)
Exit ==
  /\ Busy /\ NextTask.op = "exit"
  /\ daemon' = DaemonDown
  /\ obs' = [obs EXCEPT !.ended = {}, !.closed = {}, !.events = <<>>,
                        !.listed = {}, !.flash = {}, !.due = {},
                        !.down = Sizes, !.offline = {}]
  /\ os' = [os EXCEPT !.pidFile = NULL]
  /\ UNCHANGED <<out, watcher, db, hist, ncalls, files, registry, crashes>>

AfterCrash(o) ==
  [o EXCEPT !.lastRun = [p \in Paths |-> NULL], !.ended = {}, !.closed = {},
            !.events = <<>>, !.listed = {}, !.flash = {}, !.due = {},
            !.down = Sizes, !.offline = {}]

\* The daemon process dies (kill -9, power loss) between two steps: its
\* memory is lost, the database keeps every statement already run.
Crash ==
  /\ daemon.running
  /\ crashes < MaxCrashes
  /\ crashes' = crashes + 1
  /\ daemon' = DaemonDown
  /\ obs' = AfterCrash(obs)
  /\ UNCHANGED <<os, out, watcher, db, hist, ncalls, files, registry>>

\* The daemon process dies inside a processTranscript run, after the first k
\* of its statements.
CrashInRun ==
  /\ Busy /\ NextTask.op \in {"initial", "process", "finalize", "shutdownSession"}
  /\ crashes < MaxCrashes
  /\ LET path == NextTask.path
         stmts == processTranscript(db, ReadFile(path), path)
     IN \E k \in 1..(Len(stmts) - 1) :
          /\ db' = Run(db, SubSeq(stmts, 1, k))
          /\ obs' = [AfterCrash(obs) EXCEPT !.crashed =
                Some([path |-> path,
                      uuids |-> {stmts[i].msg[1].uuid :
                                   i \in {j \in DOMAIN stmts : stmts[j].op = "insert"}},
                      size |-> Len(files[path])])]
  /\ crashes' = crashes + 1
  /\ daemon' = DaemonDown
  /\ UNCHANGED <<os, out, watcher, hist, ncalls, files, registry>>

Next ==
  \/ \E s \in HostSessions : HostAppend(s)
  \/ \E s \in HostSessions : RegisterSession(s)
  \/ \E s \in HostSessions : UnregisterSession(s)
  \/ StartDaemon
  \/ Tick
  \/ Shutdown
  \/ Discover
  \/ ProcessTranscript
  \/ Finalize
  \/ ShutdownSession
  \/ Exit
  \/ Crash
  \/ CrashInRun

Spec == Init /\ [][Next]_vars

\* ------------------------------------------- the single-session watcher
\* watcher.ts as started per session by the SessionStart hook: one process
\* for one transcript, with fs.watch and a polling fallback.
WatcherSession == "s1"
WatcherRunning == watcher.state # NULL /\ watcher.state[1].running

\* The host CLI writes the transcript the watcher was started for.
WatcherHostAppend ==
  /\ AppendByte(WatcherSession, PathOf(WatcherSession))
  /\ UNCHANGED <<db, hist, ncalls, registry, daemon, obs, crashes, watcher, os, out>>

\* startWatcher(sessionId, transcriptPath) in a new process: session row,
\* state, initial processTranscript, fs.watch (which may fail, and does when
\* the file does not exist), setInterval.
StartWatcher ==
  /\ ~WatcherRunning
  /\ LET id == WatcherSession
         path == PathOf(id)
         buffer == ReadFile(path)
         metadata == IF buffer = NULL THEN NULL
                     ELSE getSessionMetadata(buffer[1], path)
     IN \E now \in Times, watching \in BOOLEAN :
          LET upserted == IF metadata = NULL THEN db
                          ELSE upsertSession(db, metadata[1].sessionId,
                                             metadata[1].meta, now)
          IN /\ buffer = NULL => ~watching
             /\ db' = Run(upserted, processTranscript(upserted, buffer, path))
             /\ watcher' = [state |-> Some([sessionId |-> id, transcriptPath |-> path,
                                            projectPath |-> "/p", running |-> TRUE]),
                            watching |-> watching]
             /\ obs' = NoteRun(obs, path, buffer, upserted, db', "start")
  /\ UNCHANGED <<os, out, hist, ncalls, files, registry, daemon, crashes>>

\* The fs.watch callback for a "change" event; events may come late, more
\* than once, or never.
WatchCallback ==
  /\ WatcherRunning /\ watcher.watching
  /\ LET path == watcher.state[1].transcriptPath
         buffer == ReadFile(path)
     IN /\ db' = Run(db, processTranscript(db, buffer, path))
        /\ obs' = NoteRun(obs, path, buffer, db, db', "change")
  /\ UNCHANGED <<os, out, hist, ncalls, files, registry, daemon, crashes, watcher>>

\* The setInterval callback of the watcher.
PollCallback ==
  /\ WatcherRunning
  /\ LET path == watcher.state[1].transcriptPath
         buffer == ReadFile(path)
     IN /\ db' = Run(db, processTranscript(db, buffer, path))
        /\ obs' = NoteRun(obs, path, buffer, db, db', "poll")
  /\ UNCHANGED <<os, out, hist, ncalls, files, registry, daemon, crashes, watcher>>

\* The signal handler of the watcher: running = false, watcher.close(),
\* clearInterval, processTranscript, endSession, removePidFile, exit.
WatcherShutdown ==
  /\ WatcherRunning
  /\ LET path == watcher.state[1].transcriptPath
         buffer == ReadFile(path)
         after == Run(db, processTranscript(db, buffer, path))
     IN /\ \E now \in Times : db' = endSession(after, watcher.state[1].sessionId, now)
        /\ obs' = NoteRun(obs, path, buffer, db, after, "shutdown")
  /\ watcher' = WatcherDown
  /\ UNCHANGED <<os, out, hist, ncalls, files, registry, daemon, crashes>>

WatcherNext ==
  \/ WatcherHostAppend
  \/ StartWatcher
  \/ WatchCallback
  \/ PollCallback
  \/ WatcherShutdown

SpecWatcher == Init /\ [][WatcherNext]_vars

\* ------------------------------------------------ faults in the daemon
\* SpecFaults: the daemon with two sessions and an exception thrown by a step
\* of a tick (readFileSync on an unreadable transcript, a failing database
\* statement, toISOString() of an invalid timestamp in insertMessage).
FaultSessions == SessionIds

\* The sessions, other than the one of the failing step, that have a step
\* left in the tick.
Skipped(todo, watched, sid) ==
  ({t.sid : t \in Range(todo)} \cup
   (IF \E t \in Range(todo) : t.op = "pollAll" THEN WatchedIds(watched) ELSE {}))
  \ {sid, ""}

\* A step of the daemon throws before it has changed anything.  The try
\* block of the first loop of scanForSessions catches what the initial
\* processTranscript throws and the loop goes on.  Nothing catches what the
\* second loop or the poll callback throws: the exception leaves the
\* setInterval callback, and the runtime either ends the process or reports
\* the error and keeps the timer.
Fault ==
  /\ Busy /\ NextTask.op \in {"initial", "process", "finalize"}
  /\ obs.fault = NULL
  /\ IF NextTask.op = "initial"
     THEN /\ daemon' = [daemon EXCEPT !.todo = Continue(Tail(@), daemon.watchedSessions)]
          /\ obs' = [obs EXCEPT !.fault =
                       Some([op |-> NextTask.op, died |-> FALSE, skipped |-> {}])]
     ELSE \E died \in BOOLEAN :
            /\ daemon' = IF died THEN DaemonDown ELSE [daemon EXCEPT !.todo = <<>>]
            /\ obs' = [(IF died THEN AfterCrash(obs) ELSE obs) EXCEPT !.fault =
                         Some([op |-> NextTask.op, died |-> died,
                               skipped |-> Skipped(Tail(daemon.todo),
                                                   daemon.watchedSessions,
                                                   NextTask.sid)])]
  /\ UNCHANGED <<os, out, watcher, db, hist, ncalls, files, registry, crashes>>

\* The host CLI of the open session s appends a whole line in one write.
HostWriteLine(s) ==
  /\ s \in DOMAIN registry
  /\ LinesStarted < MaxLines
  /\ LET p == registry[s]
         c == IF FileExists(p) THEN files[p] ELSE <<>>
     IN \E t \in LineTypes :
          files' = WriteFile(p, c \o LineBytes([uuid |-> LinesStarted + 1, type |-> t,
                                                sessionId |-> s, body |-> "plain"]))
  /\ UNCHANGED <<os, out, watcher, db, hist, ncalls, registry, daemon, obs, crashes>>

FaultsNext ==
  \/ \E s \in FaultSessions : HostWriteLine(s)
  \/ \E s \in FaultSessions : RegisterSession(s)
  \/ \E s \in FaultSessions : UnregisterSession(s)
  \/ StartDaemon
  \/ Tick
  \/ Discover
  \/ ProcessTranscript
  \/ Finalize
  \/ Fault

SpecFaults == Init /\ [][FaultsNext]_vars

\* ------------------------------------- the hooks and the daemon start-up
\* SpecHooks: the host CLI runs the SessionStart and SessionEnd hook commands
\* and the user the start command, each as a process of its own; every daemon
\* process they spawn runs startDaemon.  No transcript exists here, so that
\* the scans of these daemons find nothing to read.
hookFrame == <<db, hist, ncalls, files, daemon, obs, crashes, watcher>>

Alive(o, pid) == o.procs[pid] \in {"spawned", "starting", "polling", "stopping"}

\* isDaemonRunning(): its result, and the run directory it leaves (a liveness
\* file naming a dead process is removed).
isDaemonRunning(o) == o.pidFile # NULL /\ Alive(o, o.pidFile[1])
AfterIsDaemonRunning(o) ==
  IF o.pidFile # NULL /\ ~Alive(o, o.pidFile[1]) THEN [o EXCEPT !.pidFile = NULL] ELSE o

\* getDaemonPid(): the pid in the liveness file when that process exists,
\* else null; it removes nothing.
getDaemonPid(o) == IF o.pidFile # NULL /\ Alive(o, o.pidFile[1]) THEN o.pidFile ELSE NULL

\* spawn(binaryPath, ["daemon"], {detached: true})
FreePids(o) == {pid \in Pids : o.procs[pid] = "none"}
Spawn(o) ==
  LET pid == CHOOSE x \in FreePids(o) : \A y \in FreePids(o) : x <= y
  IN [o EXCEPT !.procs[pid] = "spawned"]

\* HookInput read from stdin: NULL when JSON.parse fails, "" for a missing
\* field.
HookInputs ==
  {NULL} \cup {Some([session_id |-> sid, transcript_path |-> path]) :
                 sid \in SessionIds \cup {""}, path \in Paths \cup {""}}

\* What fails in one run of a hook command: nothing, the write of hooks.log,
\* the write of the marker, its removal, or the spawn of the daemon.
StartFaults == {"none", "log", "register", "spawn"}
EndFaults == {"none", "log", "unlink"}

\* What the run of a command is remembered by: its exit code, whether it met
\* no failure, and whether the run before it was the same signal, also met
\* without failure.
Outcome(cmd, input, fault, exit) ==
  LET sid == IF input = NULL THEN "" ELSE input[1].session_id
      path == IF input = NULL THEN "" ELSE input[1].transcript_path
      clean == fault = "none"
  IN Some([cmd |-> cmd, sid |-> sid, path |-> path, exit |-> exit, clean |-> clean,
           again |-> /\ out # NULL /\ clean
                     /\ out[1].cmd = cmd /\ out[1].sid = sid /\ out[1].path = path
                     /\ out[1].clean])

\* Mutant: only the session id is required.
validStartInput_sidOnly(input) ==
  input # NULL /\ input[1].session_id # ""

\* hookSessionStartCommand goes on after its two checks: stdin was parsed,
\* and neither session_id nor transcript_path is missing or empty.
validStartInput(input) ==
  /\ input # NULL
  /\ input[1].session_id # "" /\ input[1].transcript_path # ""

\* `record-claude hook session-start`: the action of index.ts calls
\* hookSessionStartCommand() and does not handle its rejection, which ends
\* the process with exit code 1.  Every path logs before anything else.
HookSessionStart ==
  /\ UNCHANGED hookFrame
  /\ \E input \in HookInputs, fault \in StartFaults :
    LET valid == validStartInput(input) IN
    IF fault = "log"
    THEN \* appendFileSync throws in log(), in or out of the catch block
         /\ out' = Outcome("session-start", input, fault, 1)
         /\ UNCHANGED <<registry, os>>
    ELSE IF ~valid
    THEN \* process.exit(0) after the log
         /\ out' = Outcome("session-start", input, fault, 0)
         /\ UNCHANGED <<registry, os>>
    ELSE IF fault = "register"
    THEN \* writeFileSync throws in registerSession
         /\ out' = Outcome("session-start", input, fault, 1)
         /\ UNCHANGED <<registry, os>>
    ELSE /\ registry' = registerSession(registry, input[1].session_id,
                                        input[1].transcript_path)
         /\ IF isDaemonRunning(os)
            THEN /\ os' = os
                 /\ out' = Outcome("session-start", input, fault, 0)
            ELSE IF fault = "spawn"
            THEN \* the child process emits "error", which has no listener
                 /\ os' = AfterIsDaemonRunning(os)
                 /\ \E exit \in {0, 1} : out' = Outcome("session-start", input, fault, exit)
            ELSE /\ FreePids(os) # {}
                 /\ os' = Spawn(AfterIsDaemonRunning(os))
                 /\ out' = Outcome("session-start", input, fault, 0)

\* `record-claude hook session-end`: hookSessionEndCommand.  unregisterSession
\* swallows a failing unlinkSync, the marker then stays.
HookSessionEnd ==
  \E input \in HookInputs, fault \in EndFaults :
    /\ input # NULL => input[1].transcript_path = ""
    /\ IF fault = "log"
       THEN /\ out' = Outcome("session-end", input, fault, 1)
            /\ UNCHANGED registry
       ELSE IF input = NULL \/ input[1].session_id = ""
       THEN /\ out' = Outcome("session-end", input, fault, 0)
            /\ UNCHANGED registry
       ELSE /\ registry' = IF fault = "unlink" THEN registry
                           ELSE unregisterSession(registry, input[1].session_id)
            /\ out' = Outcome("session-end", input, fault, 0)
    /\ UNCHANGED os
    /\ UNCHANGED hookFrame

\* `record-claude start`: startCommand.
StartCommand ==
  /\ IF isDaemonRunning(os)
     THEN os' = os
     ELSE /\ FreePids(os) # {}
          /\ os' = Spawn(AfterIsDaemonRunning(os))
  /\ out' = Outcome("start", NULL, "none", 0)
  /\ UNCHANGED <<registry, hookFrame>>

\* `record-claude status`: statusCommand reports getDaemonPid().
StatusCommand ==
  /\ out' = Some([cmd |-> "status", sid |-> "", path |-> "", exit |-> 0,
                  clean |-> TRUE, again |-> FALSE, pid |-> getDaemonPid(os)])
  /\ UNCHANGED <<os, registry, hookFrame>>

\* startDaemon in the process pid, first statement: if (isDaemonRunning())
\* return, which ends the process.
StartDaemonCheck(pid) ==
  /\ os.procs[pid] = "spawned"
  /\ os' = IF isDaemonRunning(os)
           THEN [os EXCEPT !.procs[pid] = "exited"]
           ELSE [AfterIsDaemonRunning(os) EXCEPT !.procs[pid] = "starting"]
  /\ UNCHANGED <<registry, out, hookFrame>>

\* startDaemon in the process pid, the rest: getDatabase(), writePidFile(),
\* scanForSessions() (no marker names an existing transcript), setInterval.
StartDaemonLoop(pid) ==
  /\ os.procs[pid] = "starting"
  /\ os' = [os EXCEPT !.pidFile = Some(pid), !.procs[pid] = "polling"]
  /\ UNCHANGED <<registry, out, hookFrame>>

\* shutdown in the process pid, up to the end of its loop: clearInterval, so
\* that no scan follows, then the final processing of the watched sessions.
ShutdownProcess(pid) ==
  /\ os.procs[pid] = "polling"
  /\ os' = [os EXCEPT !.procs[pid] = "stopping"]
  /\ UNCHANGED <<registry, out, hookFrame>>

\* shutdown in the process pid, the rest: removePidFile() unlinks PID_FILE
\* whatever pid it holds, process.exit(0).
ExitProcess(pid) ==
  /\ os.procs[pid] = "stopping"
  /\ os' = [os EXCEPT !.pidFile = NULL, !.procs[pid] = "exited"]
  /\ UNCHANGED <<registry, out, hookFrame>>

\* The process pid is killed; the liveness file stays.
KillProcess(pid) ==
  /\ Alive(os, pid)
  /\ os' = [os EXCEPT !.procs[pid] = "exited"]
  /\ UNCHANGED <<registry, out, hookFrame>>

HooksNext ==
  \/ HookSessionStart
  \/ HookSessionEnd
  \/ StartCommand
  \/ StatusCommand
  \/ \E pid \in Pids : StartDaemonCheck(pid)
  \/ \E pid \in Pids : StartDaemonLoop(pid)
  \/ \E pid \in Pids : ShutdownProcess(pid)
  \/ \E pid \in Pids : ExitProcess(pid)
  \/ \E pid \in Pids : KillProcess(pid)

SpecHooks == Init /\ [][HooksNext]_vars

\* ------------------------------------------------------------ the parser
\* SpecParser: parseTranscriptFile applied to arbitrary texts of at most
\* MaxParseLines lines.
ParsePath == "/p/s1.jsonl"
parserFrame == <<db, hist, ncalls, registry, daemon, obs, crashes, watcher, os>>

\* The lines a text is made of: type, body, and whether the JSON text is
\* whole or cut before its end; the body "empty" is a line without text.
ParserLines ==
  { [type |-> "user", body |-> "plain", whole |-> TRUE],
    [type |-> "assistant", body |-> "plain", whole |-> TRUE],
    [type |-> "assistant", body |-> "plain", whole |-> FALSE],
    [type |-> "assistant", body |-> "result", whole |-> TRUE],
    [type |-> "assistant", body |-> "structured", whole |-> TRUE],
    [type |-> "user", body |-> "result", whole |-> TRUE],
    [type |-> "assistant", body |-> "nomessage", whole |-> TRUE],
    [type |-> "assistant", body |-> "null", whole |-> TRUE],
    [type |-> "file-history-snapshot", body |-> "plain", whole |-> TRUE],
    [type |-> "assistant", body |-> "twotexts", whole |-> TRUE],
    [type |-> "assistant", body |-> "emptyfirst", whole |-> TRUE],
    [type |-> "assistant", body |-> "emptymiddle", whole |-> TRUE],
    [type |-> "user", body |-> "blocks", whole |-> TRUE],
    [type |-> "", body |-> "empty", whole |-> TRUE] }

NewLines(content) == Cardinality({i \in DOMAIN content : content[i] = NL})

\* A text is written line by line; the k-th line carries the uuid k.
WriteTranscriptLine ==
  /\ LET c == IF FileExists(ParsePath) THEN files[ParsePath] ELSE <<>> IN
     /\ NewLines(c) < MaxParseLines
     /\ \E k \in ParserLines :
          LET l == [uuid |-> NewLines(c) + 1, type |-> k.type, sessionId |-> "s1",
                    body |-> k.body]
          IN files' = WriteFile(ParsePath,
                        c \o (IF k.body = "empty" THEN <<NL>>
                              ELSE IF k.whole THEN LineBytes(l)
                              ELSE <<[line |-> l, part |-> 1], NL>>))
  /\ UNCHANGED <<out, parserFrame>>

\* parseTranscriptFile(filePath)
ParseTranscriptFile ==
  /\ FileExists(ParsePath)
  /\ out' = Some([cmd |-> "parseTranscriptFile", content |-> files[ParsePath],
                  messages |-> parseTranscriptContent(files[ParsePath])])
  /\ UNCHANGED <<files, parserFrame>>

ParserNext ==
  \/ WriteTranscriptLine
  \/ ParseTranscriptFile

SpecParser == Init /\ [][ParserNext]_vars

\* ------------------------------------------------- ingestion of one file
\* SpecIngest: the daemon and one session whose host writes whole lines,
\* among them lines with a character of more than one byte and lines without
\* timestamp; the transcript may not exist yet when the session is registered,
\* and may be deleted.
IngestSession == "s1"
IngestLines ==
  { [type |-> "user", body |-> "plain"],
    [type |-> "user", body |-> "wide"],
    [type |-> "user", body |-> "badtime"],
    [type |-> "file-history-snapshot", body |-> "plain"] }

\* The host CLI appends a whole line in one write.
IngestWriteLine ==
  /\ IngestSession \in DOMAIN registry
  /\ registry[IngestSession] \notin obs.removed
  /\ LinesStarted < MaxLines
  /\ LET p == registry[IngestSession]
         c == IF FileExists(p) THEN files[p] ELSE <<>>
     IN \E k \in IngestLines :
          files' = WriteFile(p, c \o LineBytes([uuid |-> LinesStarted + 1, type |-> k.type,
                                                sessionId |-> IngestSession,
                                                body |-> k.body]))
  /\ UNCHANGED <<os, out, watcher, db, hist, ncalls, registry, daemon, obs, crashes>>

\* The transcript is deleted.
RemoveTranscript ==
  /\ \E p \in DOMAIN files :
       /\ files' = [q \in DOMAIN files \ {p} |-> files[q]]
       /\ obs' = [obs EXCEPT !.removed = @ \cup {p}]
  /\ UNCHANGED <<os, out, watcher, db, hist, ncalls, registry, daemon, crashes>>

\* message.timestamp.toISOString() in insertMessage throws a RangeError for
\* an Invalid Date, before the first statement is run.
insertThrows(m) == m.timestamp = InvalidDate

\* The statements of a run up to the first insertMessage that throws.
RECURSIVE RunUntilThrow(_, _)
RunUntilThrow(d, stmts) ==
  IF stmts = <<>> THEN [db |-> d, threw |-> FALSE]
  ELSE IF Head(stmts).op = "insert" /\ insertThrows(Head(stmts).msg[1])
  THEN [db |-> d, threw |-> TRUE]
  ELSE RunUntilThrow(Statement(d, Head(stmts)), Tail(stmts))

\* processTranscript(session) in the first loop of scanForSessions
\* ("initial") and in the poll callback ("process"), with what insertMessage
\* throws: the try block of the first loop catches it and the loop goes on;
\* nothing catches it in the poll callback, and the runtime either ends the
\* process or reports the error and keeps the timer.
ProcessOrThrow ==
  /\ Busy /\ NextTask.op \in {"initial", "process"}
  /\ LET path == NextTask.path
         buffer == ReadFile(path)
         r == RunUntilThrow(db, processTranscript(db, buffer, path))
         read == [NoteRun(obs, path, buffer, db, r.db, "poll") EXCEPT
                    !.missing = IF buffer = NULL THEN @ \cup {path} ELSE @]
     IN /\ db' = r.db
        /\ IF ~r.threw
           THEN /\ daemon' = [daemon EXCEPT
                                !.todo = Continue(Tail(@), daemon.watchedSessions)]
                /\ obs' = read
           ELSE IF NextTask.op = "initial"
           THEN /\ daemon' = [daemon EXCEPT
                                !.todo = Continue(Tail(@), daemon.watchedSessions)]
                /\ obs' = [read EXCEPT !.fault =
                             Some([op |-> NextTask.op, died |-> FALSE, skipped |-> {}])]
           ELSE \E died \in BOOLEAN :
                  /\ daemon' = IF died THEN DaemonDown ELSE [daemon EXCEPT !.todo = <<>>]
                  /\ obs' = [(IF died THEN AfterCrash(read) ELSE read) EXCEPT !.fault =
                               Some([op |-> NextTask.op, died |-> died,
                                     skipped |-> Skipped(Tail(daemon.todo),
                                                         daemon.watchedSessions,
                                                         NextTask.sid)])]
  /\ UNCHANGED <<os, out, watcher, hist, ncalls, files, registry, crashes>>

IngestNext ==
  \/ IngestWriteLine
  \/ RemoveTranscript
  \/ RegisterSession(IngestSession)
  \/ StartDaemon
  \/ Tick
  \/ Discover
  \/ ProcessOrThrow

SpecIngest == Init /\ [][IngestNext]_vars

\* ------------------------------------------- one session, whole life
\* SpecSession: the daemon and one session whose host writes whole lines,
\* among them tool invocations and their results; the session is registered
\* and unregistered, the daemon is started, shut down, restarted and may
\* crash inside a run.
SessionLines ==
  { [type |-> "assistant", body |-> "plain"],
    [type |-> "assistant", body |-> "result"],
    [type |-> "file-history-snapshot", body |-> "plain"] }

\* The host CLI of the open session s appends a whole line in one write.  The
\* sessionId field of an entry is data of the transcript: it need not be the
\* id the marker of the transcript is named by.
SessionWriteLine(s) ==
  /\ s \in DOMAIN registry
  /\ LinesStarted < MaxLines
  /\ LET p == registry[s]
         c == IF FileExists(p) THEN files[p] ELSE <<>>
     IN \E k \in SessionLines, id \in SessionIds :
          files' = WriteFile(p, c \o LineBytes([uuid |-> LinesStarted + 1, type |-> k.type,
                                                sessionId |-> id, body |-> k.body]))
  /\ UNCHANGED <<os, out, watcher, db, hist, ncalls, registry, daemon, obs, crashes>>

SessionNext ==
  \/ \E s \in HostSessions : SessionWriteLine(s)
  \/ \E s \in HostSessions : RegisterSession(s)
  \/ \E s \in HostSessions : UnregisterSession(s)
  \/ StartDaemon
  \/ Tick
  \/ Shutdown
  \/ Discover
  \/ ProcessTranscript
  \/ Finalize
  \/ ShutdownSession
  \/ Exit
  \/ Crash
  \/ CrashInRun

SpecSession == Init /\ [][SessionNext]_vars

\* ------------------------------------------- the parser's incremental read
\* SpecIncremental: parseTranscriptIncremental called again and again on a
\* transcript that grows by whole lines, each call from offset 0 or from the
\* newPosition the call before it returned.
IncrementalLines ==
  { [type |-> "user", body |-> "plain"],
    [type |-> "user", body |-> "wide"],
    [type |-> "file-history-snapshot", body |-> "plain"] }

\* parseTranscriptIncremental(filePath, fromByte) on a file holding buffer:
\* readFileSync(filePath, "utf-8"), content.slice(fromByte),
\* parseTranscriptContent, Buffer.byteLength(content, "utf-8").
parseTranscriptIncremental(buffer, fromByte) ==
  LET content == toString(buffer)
      newContent == SubSeq(content, fromByte + 1, Len(content))
  IN [messages |-> parseTranscriptContent(newContent), newPosition |-> Len(buffer)]

\* A whole line is appended to the transcript; the k-th line carries uuid k.
IncrementalWriteLine ==
  /\ LET c == IF FileExists(ParsePath) THEN files[ParsePath] ELSE <<>> IN
     /\ NewLines(c) < MaxParseLines
     /\ \E k \in IncrementalLines :
          files' = WriteFile(ParsePath,
                     c \o LineBytes([uuid |-> NewLines(c) + 1, type |-> k.type,
                                     sessionId |-> "s1", body |-> k.body]))
  /\ UNCHANGED <<out, parserFrame>>

ParseTranscriptIncremental ==
  /\ FileExists(ParsePath)
  /\ \E fromByte \in {0} \cup (IF out = NULL THEN {} ELSE {out[1].newPosition}) :
       LET r == parseTranscriptIncremental(files[ParsePath], fromByte) IN
       out' = Some([cmd |-> "parseTranscriptIncremental", content |-> files[ParsePath],
                    fromByte |-> fromByte, messages |-> r.messages,
                    newPosition |-> r.newPosition])
  /\ UNCHANGED <<files, parserFrame>>

IncrementalNext ==
  \/ IncrementalWriteLine
  \/ ParseTranscriptIncremental

SpecIncremental == Init /\ [][IncrementalNext]_vars

\* ------------------------------------------- scans over one session
\* SpecScan: the daemon and one session whose host writes whole lines that
\* carry its id; the session is registered and unregistered, the daemon is
\* started, shut down, restarted and may crash.
ScanNext ==
  \/ \E s \in HostSessions : HostWriteLine(s)
  \/ \E s \in HostSessions : RegisterSession(s)
  \/ \E s \in HostSessions : UnregisterSession(s)
  \/ StartDaemon
  \/ Tick
  \/ Shutdown
  \/ Discover
  \/ ProcessTranscript
  \/ Finalize
  \/ ShutdownSession
  \/ Exit
  \/ Crash
  \/ CrashInRun

SpecScan == Init /\ [][ScanNext]_vars

\* ------------------------------------------------------------ properties
RowsOf(u) == {i \in 1..Len(db.messages) : db.messages[i].uuid = u}

MessageRow(m) ==
  [uuid |-> m.uuid, session_id |-> m.sessionId, timestamp |-> m.timestamp,
   role |-> m.role, text_content |-> m.textContent,
   thinking_content |-> m.thinkingContent, model |-> m.model, cwd |-> m.cwd]

\* C3: after any sequence of insertMessage calls there is exactly one message
\* row per uuid passed, none for a uuid never passed, and the row holds the
\* content of the first call made with that uuid.
C3_FirstInsertWins ==
  \A u \in UUIDs :
    IF hist.firstMessage[u] = NULL
    THEN RowsOf(u) = {}
    ELSE /\ Cardinality(RowsOf(u)) = 1
         /\ \A i \in RowsOf(u) : db.messages[i] = MessageRow(hist.firstMessage[u][1])

\* A uuid was inserted again with another payload.
C3_Witness ==
  /\ hist.reinserted # {}
  /\ hist.last.op = "insertMessage"

\* C4 (as claimed): each (message uuid, tool_id) pair is stored at most once,
\* whatever number of times the message is inserted again.
C4_ToolCallOnce ==
  \A i, j \in 1..Len(db.tool_calls) :
    (/\ db.tool_calls[i].message_uuid = db.tool_calls[j].message_uuid
     /\ db.tool_calls[i].tool_id = db.tool_calls[j].tool_id) => i = j

\* C8: right after an insertMessage call, the message_count of the session
\* row of the message's sessionId is the number of message rows of that
\* session.
C8_MessageCount ==
  hist.last.op = "insertMessage" =>
    LET sid == hist.last.id[1] IN
    HasSession(db, sid) =>
      db.sessions[sid].message_count = CountMessages(db, sid)

\* MaxUuids distinct messages and a duplicate were inserted for a session.
C8_Witness ==
  /\ hist.last.op = "insertMessage"
  /\ HasSession(db, hist.last.id[1])
  /\ db.sessions[hist.last.id[1]].message_count >= 2
  /\ hist.reinserted # {}

\* C9: a session row keeps the start_time of the first upsertSession for its
\* id, and an end_time that is set stays set.
C9_StartOnceEndKept ==
  [][/\ \A id \in DOMAIN db'.sessions :
          db'.sessions[id].start_time = hist'.firstStart[id][1]
     /\ \A id \in DOMAIN db.sessions :
          db.sessions[id].end_time # NULL =>
            id \in DOMAIN db'.sessions /\ db'.sessions[id].end_time # NULL]_vars

\* An ended session was upserted again with another startTime.
C9_Witness ==
  \E id \in DOMAIN db.sessions :
    /\ db.sessions[id].end_time # NULL
    /\ id \in hist.restarted
    /\ hist.last = [op |-> "upsertSession", id |-> Some(id)]

\* What the last completed run on p read: the transcripts are append-only.
RunContent(p) == SubSeq(files[p], 1, obs.lastRun[p][1].size)

\* The entries whose JSON text is completely present in content.
CompleteLines(content) ==
  {content[i].line : i \in {j \in 1..(Len(content) - 1) :
      content[j].part = 1 /\ content[j + 1].part = 2}}
MessageLine(l) == l.type \in {"user", "assistant"}

\* C1 (as claimed): when a processing run of the daemon on a transcript has
\* completed, every user/assistant line completely present in what it read is
\* stored.
C1_PollStoresCompleteLines ==
  \A p \in Paths :
    obs.lastRun[p] # NULL =>
      \A l \in CompleteLines(RunContent(p)) : MessageLine(l) => HasUuid(db, l.uuid)

\* C2: a run that reads the same content as the run before it on that path
\* stores no new message and leaves the stored offset as it was.
C2_Idempotent ==
  \A p \in Paths :
    (obs.lastRun[p] # NULL /\ obs.lastRun[p][1].again # NULL) =>
      LET a == obs.lastRun[p][1].again[1] IN
      a.newMessages = 0 /\ a.positionAfter = a.positionBefore

\* The change callback found unchanged a transcript that the poll callback
\* had processed, a message of it being stored.
C2_Witness ==
  \E p \in Paths :
    /\ obs.lastRun[p] # NULL /\ obs.lastRun[p][1].again # NULL
    /\ obs.lastRun[p][1].by = "change"
    /\ obs.lastRun[p][1].again[1].after = "poll"
    /\ obs.lastRun[p][1].again[1].positionBefore > 0
    /\ Len(db.messages) > 0

\* C5: when a crash interrupted a run after its first insertMessage and
\* before its setFilePosition, then once a run on that path has completed
\* after the restart every message of the interrupted batch is stored exactly
\* once and the stored offset is the length that run read.
C5_CrashBetweenWrites ==
  obs.crashed # NULL =>
    LET c == obs.crashed[1] IN
    obs.lastRun[c.path] # NULL =>
      /\ \A u \in c.uuids : Cardinality(RowsOf(u)) = 1
      /\ getFilePosition(db, c.path) = obs.lastRun[c.path][1].size

C5_Witness ==
  /\ obs.crashed # NULL
  /\ obs.crashed[1].uuids # {}
  /\ obs.lastRun[obs.crashed[1].path] # NULL

\* C6 (as claimed): a line that a run read while only its first part was
\* written is stored, exactly once, by the time a run has read it complete.
C6_PartialLineReread ==
  \A p \in Paths :
    obs.lastRun[p] # NULL =>
      \A l \in CompleteLines(RunContent(p)) :
        (MessageLine(l) /\ l.uuid \in obs.partial) => Cardinality(RowsOf(l.uuid)) = 1

\* C7: no step lowers the stored offset of a path.
C7_OffsetMonotone ==
  [][\A p \in Paths : getFilePosition(db', p) >= getFilePosition(db, p)]_vars

\* A daemon restarted after a crash has advanced an offset.
C7_Witness ==
  /\ crashes > 0
  /\ \E p \in Paths : obs.lastRun[p] # NULL /\ getFilePosition(db, p) > 2

EventsOf(s) == SelectSeq(obs.events, LAMBDA e : e.sid = s)
OpsOf(s) == [i \in 1..Len(EventsOf(s)) |-> EventsOf(s)[i].op]

\* C10: a watched session that a scan finds without marker gets, in that
\* tick, one processTranscript, then one endSession, then its removal from
\* watchedSessions, and nothing more; a session closed in an earlier tick and
\* not discovered again is not processed.
C10_FinalizeOnce ==
  /\ \A s \in obs.ended \cap obs.closed :
       /\ OpsOf(s) = <<"process", "endSession", "delete">>
       /\ s \notin WatchedIds(daemon.watchedSessions)
  /\ \A s \in obs.closed \ obs.ended : OpsOf(s) = <<>>
  /\ \A s \in obs.ended \ obs.closed :
       /\ OpsOf(s) = <<>>
       /\ \E i \in DOMAIN daemon.todo :
            daemon.todo[i].op = "finalize" /\ daemon.todo[i].sid = s

\* The tick that finalized a session is over and the daemon keeps polling.
C10_Witness ==
  /\ Idle
  /\ obs.ended \cap obs.closed # {}
  /\ Len(db.messages) > 0

\* C11 (as claimed): a session registered after the last scan and unregistered
\* before the next tick is finalized by that tick: when the tick is over it
\* has made one last processTranscript and exactly one endSession for it.
C11_FlashSessionFinalized ==
  Idle =>
    \A s \in obs.due :
      /\ Cardinality({i \in DOMAIN obs.events :
                        obs.events[i] = [op |-> "endSession", sid |-> s]}) = 1
      /\ \E i \in DOMAIN obs.events : obs.events[i] = [op |-> "process", sid |-> s]

\* C12 (as claimed): the daemon stores no message for a session that has no
\* session row.
C12_MessagesHaveSession ==
  \A i \in DOMAIN db.messages : HasSession(db, db.messages[i].session_id)

UuidsIn(p) == {files[p][i].line.uuid : i \in DOMAIN files[p]}

\* C13: a daemon that starts tracks, in its scan, every marker it lists whose
\* transcript exists, and processes it at once; when a run of the new daemon
\* on a transcript has completed, every user/assistant line written to it
\* while no daemon ran is stored exactly once.
C13_RestartResumes ==
  /\ [](\A p \in DOMAIN files :
          obs.lastRun[p] # NULL =>
            \A u \in obs.offline \cap UuidsIn(p) : Cardinality(RowsOf(u)) = 1)
  /\ [][(/\ Busy /\ NextTask.op = "discover"
         /\ daemon'.running /\ daemon' # daemon
         /\ NextTask.sid \in DOMAIN registry
         /\ registry[NextTask.sid] \in DOMAIN files)
        => /\ NextTask.sid \in WatchedIds(daemon'.watchedSessions)
           /\ daemon'.todo # <<>>
           /\ Head(daemon'.todo) =
                Task("initial", NextTask.sid, registry[NextTask.sid], NULL, 0)]_vars

\* A daemon restarted after a crash has stored a line written before the
\* crash and a line written while no daemon ran.
C13_Witness ==
  /\ crashes > 0
  /\ Cardinality(obs.offline) = 1
  /\ Len(db.messages) = 2
  /\ \E p \in DOMAIN files :
       /\ obs.lastRun[p] # NULL
       /\ obs.offline \subseteq UuidsIn(p)
       /\ obs.offline \subseteq {db.messages[i].uuid : i \in DOMAIN db.messages}

ShuttingDown == Busy /\ \E i \in DOMAIN daemon.todo : daemon.todo[i].op = "exit"

\* C18: from the termination signal on the daemon only runs, for each watched
\* session, processTranscript followed by endSession; when it comes to remove
\* the liveness file every watched session is processed up to the size read
\* and ended, the liveness file is still there; it then removes the file and
\* exits; no step of the shutdown changes the registry.
C18_ShutdownOrder ==
  /\ [](ShuttingDown =>
          /\ os.pidFile = Some(DaemonPid)
          /\ \A i \in DOMAIN daemon.todo :
               daemon.todo[i].op = IF i = Len(daemon.todo) THEN "exit"
                                   ELSE "shutdownSession"
          /\ \A i \in DOMAIN daemon.watchedSessions :
               LET w == daemon.watchedSessions[i] IN
               (\A j \in DOMAIN daemon.todo : daemon.todo[j].sid # w.sessionId) =>
                 /\ HasSession(db, w.sessionId) =>
                      db.sessions[w.sessionId].end_time # NULL
                 /\ obs.lastRun[w.transcriptPath] # NULL
                 /\ obs.lastRun[w.transcriptPath][1].by = "shutdown"
                 /\ getFilePosition(db, w.transcriptPath) =
                      obs.lastRun[w.transcriptPath][1].size)
  /\ [][(ShuttingDown /\ daemon' # daemon /\ crashes' = crashes) =>
          /\ registry' = registry
          /\ IF NextTask.op = "exit"
             THEN os'.pidFile = NULL /\ ~daemon'.running
             ELSE os'.pidFile = os.pidFile /\ daemon'.running]_vars

\* The shutdown of a daemon watching a session has ended it and is about to
\* remove the liveness file, the marker of the session being in place.
C18_Witness ==
  /\ Busy /\ NextTask.op = "exit"
  /\ \E i \in DOMAIN daemon.watchedSessions :
       LET w == daemon.watchedSessions[i] IN
       /\ HasSession(db, w.sessionId)
       /\ db.sessions[w.sessionId].end_time # NULL
       /\ w.sessionId \in DOMAIN registry
       /\ Len(db.messages) > 0

Polling == {pid \in Pids : os.procs[pid] = "polling"}

\* C14 (as claimed): at most one daemon process is in its poll loop.
C14_SingleDaemon == Cardinality(Polling) <= 1

HookRun == out # NULL /\ out[1].cmd \in {"session-start", "session-end"}

\* C16 (as claimed): a run of the start-signal or end-signal handler ends
\* with exit code 0, whatever its input and whatever failed in it.
C16_HooksExitZero == HookRun => out[1].exit = 0

\* C17: a start signal handled without failure leaves the marker of its
\* session naming its transcript path, an end signal leaves no marker of its
\* session, and both leave the other markers as they were; so does the same
\* signal handled again, and an end signal for a session not registered.
C17_SignalsIdempotent ==
  /\ [][(out' # NULL /\ (out' # out \/ registry' # registry)
         /\ out'[1].clean /\ out'[1].sid # "")
        => /\ \A x \in (DOMAIN registry \cup DOMAIN registry') \ {out'[1].sid} :
                /\ x \in DOMAIN registry /\ x \in DOMAIN registry'
                /\ registry'[x] = registry[x]
           /\ (out'[1].cmd = "session-start" /\ out'[1].path # "") =>
                /\ out'[1].sid \in DOMAIN registry'
                /\ registry'[out'[1].sid] = out'[1].path
           /\ out'[1].cmd = "session-end" => out'[1].sid \notin DOMAIN registry']_vars
  /\ [](\A sid \in SessionIds, path \in Paths :
          /\ registerSession(registerSession(registry, sid, path), sid, path)
               = registerSession(registry, sid, path)
          /\ unregisterSession(unregisterSession(registry, sid), sid)
               = unregisterSession(registry, sid)
          /\ sid \notin DOMAIN registry => unregisterSession(registry, sid) = registry)

\* The end signal of a session was handled twice in a row, the marker of
\* another session being in place.
C17_Witness ==
  /\ out # NULL /\ out[1].cmd = "session-end" /\ out[1].again
  /\ DOMAIN registry # {}

\* C15 (as claimed): a fault raised by a step of a tick leaves the daemon
\* running and no other session's step of that tick undone.
C15_FaultIsolated ==
  obs.fault # NULL => ~obs.fault[1].died /\ obs.fault[1].skipped = {}

Parsed == out # NULL /\ out[1].cmd = "parseTranscriptFile"

\* Whether the bytes of content from i on start a line that is whole and is a
\* user or assistant entry with a message.
MessageAt(content, i) ==
  /\ i < Len(content)
  /\ content[i].part = 1 /\ content[i + 1].part = 2
  /\ content[i].line = content[i + 1].line
  /\ content[i].line.type \in {"user", "assistant"}
  /\ content[i].line.body \notin {"nomessage", "null"}

\* The uuids of those lines, in the order of the text.
MessageUuids(content) ==
  LET at == SelectSeq([i \in 1..Len(content) |-> i], LAMBDA i : MessageAt(content, i))
  IN [k \in 1..Len(at) |-> content[at[k]].line.uuid]

\* C19: parseTranscriptContent returns, for any text, the messages of the
\* lines that are whole user or assistant entries with a message, in the order
\* of the text, and nothing for any other line.
C19_ParserSkipsBadLines ==
  Parsed =>
    /\ Len(out[1].messages) = Len(MessageUuids(out[1].content))
    /\ \A k \in DOMAIN out[1].messages :
         out[1].messages[k].uuid = MessageUuids(out[1].content)[k]

\* A text of two valid entries with, between them, a line cut before its end
\* was parsed into two messages.
C19_Witness ==
  /\ Parsed
  /\ Len(out[1].content) = 8
  /\ MessageAt(out[1].content, 1)
  /\ out[1].content[4].part = 1 /\ out[1].content[5] = NL
  /\ MessageAt(out[1].content, 6)
  /\ Len(out[1].messages) = 2

\* The tool_result blocks of the entries of content, whatever their type.
ResultBlocks(content) ==
  UNION {LET entry == EntryOf(content[i].line) IN
         IF entry.message = NULL \/ entry.message[1].content[1] # "array" THEN {}
         ELSE {b \in Range(entry.message[1].content[2]) : b.type = "tool_result"} :
         i \in {j \in 1..(Len(content) - 1) :
                  /\ content[j].part = 1 /\ content[j + 1].part = 2
                  /\ content[j].line = content[j + 1].line}}

\* C20 (as claimed): the output of every tool call of a parsed batch is the
\* content, as text, of a tool_result block of the batch that names its id, and
\* null when the batch has no such block.
C20_ToolOutputResolved ==
  Parsed =>
    \A k \in DOMAIN out[1].messages :
      \A c \in DOMAIN out[1].messages[k].toolCalls :
        LET call == out[1].messages[k].toolCalls[c]
            results == {b \in ResultBlocks(out[1].content) : b.ref = call.id}
        IN IF results = {} THEN call.output = NULL
           ELSE \E b \in results : call.output = Some(resultContent(b.text))

\* The lines of content that start after its first position bytes, in order.
LinesAfter(content, position) ==
  LET at == SelectSeq([i \in 1..Len(content) |-> i],
                      LAMBDA i : i > position /\ content[i].part = 1)
  IN [k \in 1..Len(at) |-> content[at[k]].line]

\* The characters of whole lines: those of the JSON text and the newline.
RECURSIVE CharsOf(_)
CharsOf(lines) ==
  IF lines = <<>> THEN <<>>
  ELSE <<[line |-> Head(lines), part |-> 1], [line |-> Head(lines), part |-> 2], NL>>
       \o CharsOf(Tail(lines))

\* C21: for a transcript of whole lines and a stored offset that lies on a
\* line boundary, what processTranscript decodes is the text of the lines
\* after the offset, characters of several bytes included, and the messages
\* parsed from it are those of these lines, in order, with their text.
C21_ByteOffsetSlicing ==
  \A p \in DOMAIN files :
    LET buffer == files[p]
        position == getFilePosition(db, p)
    IN (position <= Len(buffer) /\ (position = 0 \/ buffer[position] = NL)) =>
         LET after == LinesAfter(buffer, position)
             expected == SelectSeq(after, LAMBDA l : EntryOf(l).message # NULL)
             messages == parseTranscriptContent(NewContent(buffer, position))
         IN /\ NewContent(buffer, position) = CharsOf(after)
            /\ Len(messages) = Len(expected)
            /\ \A k \in DOMAIN messages :
                 /\ messages[k].uuid = expected[k].uuid
                 /\ messages[k].textContent = ContentOf(expected[k])[2]

\* A run stored a line with a character of several bytes, the offset lies
\* after it, and a second such line has been appended since.
C21_Witness ==
  \E p \in DOMAIN files :
    /\ Len(files[p]) = 8 /\ getFilePosition(db, p) = 4
    /\ files[p][3].part = 3 /\ files[p][7].part = 3
    /\ Len(db.messages) = 1
    /\ db.messages[1].text_content = "Hello <U+1F44B>"
    /\ obs.lastRun[p] # NULL /\ obs.lastRun[p][1].size = 4

\* C22 (as claimed): right after an insertMessage call that was interrupted
\* the store holds either nothing of the call or all of it: the message row,
\* every tool-call row and the recomputed message count.
C22_InsertAllOrNothing ==
  (out # NULL /\ out[1].cmd = "insertMessage" /\ out[1].call = ncalls) =>
    \/ db = out[1].before
    \/ db = insertMessage(out[1].before, out[1].message)

\* C23: the full-text index holds one entry per message row, under the row's
\* id, with the row's text_content and nothing else; an insert that is
\* ignored leaves the index as it was.
C23_IndexMatchesMessages ==
  /\ db.messages_fts =
       {[rowid |-> i, text_content |-> db.messages[i].text_content] :
          i \in DOMAIN db.messages}
  /\ Cardinality(db.messages_fts) = Len(db.messages)

\* A message with thinking content and a tool call is stored, and an insert
\* with the uuid of a stored message and another text was ignored.
C23_Witness ==
  /\ hist.reinserted # {}
  /\ hist.last.op = "insertMessage"
  /\ Len(db.messages) = 2
  /\ \E i \in DOMAIN db.messages : db.messages[i].thinking_content # NULL
  /\ db.tool_calls # <<>>

\* The liveness file names a process that does not exist.
StaleFile(o) == o.pidFile # NULL /\ ~Alive(o, o.pidFile[1])

\* C24 (as claimed): a command that calls isDaemonRunning or getDaemonPid
\* finds the daemon alive exactly when the liveness file exists and names a
\* process that exists, and leaves no liveness file that names a process
\* that does not exist.
C24_LivenessOps ==
  [][(out' # NULL /\ out' # out /\ out'[1].cmd \in {"status", "start"}) =>
       /\ out'[1].cmd = "status" =>
            (out'[1].pid # NULL <=> (os.pidFile # NULL /\ Alive(os, os.pidFile[1])))
       /\ ~StaleFile(os')]_vars

\* C25: a step of the daemon that does not find the transcript of a session
\* changes nothing in the database, raises no fault and leaves the daemon
\* running, the session staying as it was, watched or not; every tick lists
\* the markers again, and the marker of a session not yet watched whose
\* transcript exists gets the session watched and processed at once.
C25_MissingTranscriptRetried ==
  [][(Busy /\ daemon' # daemon) =>
       LET id == NextTask.sid IN
       /\ (/\ NextTask.op = "discover" /\ id \in DOMAIN registry
           /\ registry[id] \notin DOMAIN files)
          => /\ db' = db /\ obs'.fault = obs.fault /\ daemon'.running
             /\ daemon'.watchedSessions = daemon.watchedSessions
       /\ (NextTask.op \in {"initial", "process"} /\ NextTask.path \notin DOMAIN files)
          => /\ db' = db /\ obs'.fault = obs.fault /\ daemon'.running
             /\ daemon'.watchedSessions = daemon.watchedSessions
       /\ (/\ NextTask.op = "discover" /\ id \in DOMAIN registry
           /\ registry[id] \in DOMAIN files)
          => /\ id \in WatchedIds(daemon'.watchedSessions)
             /\ Head(daemon'.todo).op = "initial" /\ Head(daemon'.todo).sid = id]_vars
  /\ [][(Idle /\ daemon'.running /\ daemon' # daemon) =>
         \A id \in DOMAIN registry \ WatchedIds(daemon.watchedSessions) :
           \E i \in DOMAIN daemon'.todo :
             daemon'.todo[i].op = "discover" /\ daemon'.todo[i].sid = id]_vars

\* The transcript of a watched session, of which a message is stored, was
\* deleted, and a tick has run on it since.
C25_Witness ==
  /\ Idle
  /\ \E i \in DOMAIN daemon.watchedSessions :
       LET w == daemon.watchedSessions[i] IN
       /\ w.transcriptPath \in obs.missing
       /\ getFilePosition(db, w.transcriptPath) > 0
  /\ Len(db.messages) > 0

\* C27 (as claimed): a user or assistant line without timestamp is skipped:
\* the daemon does not die of it, and when a run has read a transcript the
\* stored offset is the size read and every other user or assistant line
\* read is stored.
C27_BadLineSkipped ==
  /\ obs.fault # NULL => ~obs.fault[1].died
  /\ \A p \in DOMAIN files :
       obs.lastRun[p] # NULL =>
         /\ getFilePosition(db, p) = obs.lastRun[p][1].size
         /\ \A l \in CompleteLines(RunContent(p)) :
              (MessageLine(l) /\ l.body # "badtime") => HasUuid(db, l.uuid)

\* C26: an upsertSession call for an id that has a row sets slug,
\* project_path, working_dir, version and transcript_path of that row to its
\* arguments and changes nothing else: not end_time, message_count or
\* start_time of the row, no other session row, no other table.
C26_UpsertUpdateFrame ==
  [][(/\ ncalls' = ncalls + 1
      /\ hist'.last.op = "upsertSession"
      /\ HasSession(db, hist'.last.id[1]))
     => LET id == hist'.last.id[1] IN
        /\ \E meta \in Metas :
             db'.sessions = [db.sessions EXCEPT ![id] =
               [slug |-> meta.slug, project_path |-> meta.projectPath,
                working_dir |-> meta.workingDir, start_time |-> db.sessions[id].start_time,
                end_time |-> db.sessions[id].end_time,
                message_count |-> db.sessions[id].message_count,
                version |-> meta.version, transcript_path |-> meta.transcriptPath]]
        /\ db'.messages = db.messages
        /\ db'.tool_calls = db.tool_calls
        /\ db'.messages_fts = db.messages_fts
        /\ db'.file_positions = db.file_positions]_vars

\* A session that holds a message and was ended was upserted again with
\* another startTime.
C26_Witness ==
  \E id \in DOMAIN db.sessions :
    /\ hist.last = [op |-> "upsertSession", id |-> Some(id)]
    /\ id \in hist.restarted
    /\ db.sessions[id].end_time # NULL
    /\ db.sessions[id].message_count > 0

\* The line of content that carries the uuid u.
LineOf(content, u) ==
  CHOOSE l \in {content[i].line : i \in DOMAIN content} : l.uuid = u

\* texts.join("\n")
RECURSIVE Join(_)
Join(texts) ==
  IF texts = <<>> THEN ""
  ELSE IF Len(texts) = 1 THEN texts[1]
  ELSE texts[1] \o "\n" \o Join(Tail(texts))

\* The texts of the text segments of a sequence of segments, in order.
TextsOf(blocks) ==
  LET text == SelectSeq(blocks, LAMBDA b : b.type = "text")
  IN [i \in 1..Len(text) |-> text[i].text]

\* C28 (as claimed): the textContent of a message whose entry has a sequence
\* of segments as content is the texts of its text segments, in order, with
\* one newline between each two consecutive ones, empty texts included.
C28_TextJoined ==
  Parsed =>
    \A k \in DOMAIN out[1].messages :
      LET content == ContentOf(LineOf(out[1].content, out[1].messages[k].uuid))
      IN content[1] = "array" =>
           out[1].messages[k].textContent = Join(TextsOf(content[2]))

\* C29 (as claimed): a message with role user that the parser returns has no
\* thinking content, no model and no tool call.
C29_UserMessagesPlain ==
  Parsed =>
    \A k \in DOMAIN out[1].messages :
      out[1].messages[k].role = "user" =>
        /\ out[1].messages[k].thinkingContent = NULL
        /\ out[1].messages[k].model = NULL
        /\ out[1].messages[k].toolCalls = <<>>

\* The entries of the lines of content that are whole, are of type user or
\* assistant and have a message, in the order of the text.
MessageEntries(content) ==
  LET at == SelectSeq([i \in 1..Len(content) |-> i],
               LAMBDA i : /\ i < Len(content)
                          /\ content[i].part = 1
                          /\ content[i + 1] = [line |-> content[i].line, part |-> 2]
                          /\ EntryOf(content[i].line).value = "object"
                          /\ EntryOf(content[i].line).type \in {"user", "assistant"}
                          /\ EntryOf(content[i].line).message # NULL)
  IN [k \in 1..Len(at) |-> EntryOf(content[at[k]].line)]

\* C30: parseTranscriptContent returns one message for each line that is a
\* user or assistant entry with a message, in the order of the lines, with
\* the uuid, session id, role and working directory of its entry, and no
\* message for a snapshot, an entry without message or an empty line.
C30_OneMessagePerEntry ==
  Parsed =>
    LET entries == MessageEntries(out[1].content) IN
    /\ Len(out[1].messages) = Len(entries)
    /\ \A k \in DOMAIN out[1].messages :
         /\ out[1].messages[k].uuid = entries[k].uuid
         /\ out[1].messages[k].sessionId = entries[k].sessionId
         /\ out[1].messages[k].role = entries[k].message[1].role
         /\ out[1].messages[k].cwd = entries[k].cwd

\* A text of a snapshot, an empty line and a user entry was parsed into one
\* message.
C30_Witness ==
  /\ Parsed
  /\ Len(out[1].content) = 7
  /\ out[1].content[1].line.type = "file-history-snapshot"
  /\ out[1].content[3] = NL /\ out[1].content[4] = NL
  /\ MessageAt(out[1].content, 5)
  /\ out[1].content[5].line.type = "user"
  /\ Len(out[1].messages) = 1 /\ out[1].messages[1].uuid = 3

\* C31 (as claimed): a tool call stored with output null is never changed
\* afterwards: no step rewrites its row, and no step adds another row for the
\* same invocation (message uuid and tool id), whenever its result arrives.
C31_NullOutputFrozen ==
  [][\A i \in DOMAIN db.tool_calls :
       db.tool_calls[i].output = NULL =>
         /\ i \in DOMAIN db'.tool_calls
         /\ db'.tool_calls[i] = db.tool_calls[i]
         /\ \A j \in DOMAIN db'.tool_calls \ DOMAIN db.tool_calls :
              ~(/\ db'.tool_calls[j].message_uuid = db.tool_calls[i].message_uuid
                /\ db'.tool_calls[j].tool_id = db.tool_calls[i].tool_id)]_vars

\* C32 (as claimed): every tool-call row names a stored message, and carries
\* the session_id of that message row, also after a uuid was inserted again
\* with another payload.
C32_ToolCallsOfMessages ==
  \A i \in DOMAIN db.tool_calls :
    \E j \in DOMAIN db.messages :
      /\ db.messages[j].uuid = db.tool_calls[i].message_uuid
      /\ db.messages[j].session_id = db.tool_calls[i].session_id

\* C33 (as claimed): parseTranscriptIncremental returns the byte length of the
\* file as newPosition and, called with the newPosition of an earlier call,
\* exactly the messages of the lines lying after that many bytes, in order
\* and with their text, characters of several bytes included.
C33_IncrementalSameUnit ==
  (out # NULL /\ out[1].cmd = "parseTranscriptIncremental") =>
    LET after == LinesAfter(out[1].content, out[1].fromByte)
        expected == SelectSeq(after, LAMBDA l : EntryOf(l).message # NULL)
    IN /\ out[1].newPosition = Len(out[1].content)
       /\ Len(out[1].messages) = Len(expected)
       /\ \A k \in DOMAIN expected :
            /\ out[1].messages[k].uuid = expected[k].uuid
            /\ out[1].messages[k].textContent = ContentOf(expected[k])[2]

\* No step of a scanForSessions call is left to run.
ScanDone ==
  /\ daemon.running
  /\ \A i \in DOMAIN daemon.todo :
       daemon.todo[i].op \notin {"discover", "initial", "finalize"}

\* C34: when a scanForSessions call has completed, every watched session id
\* was among the markers the scan listed; the scan's step for a listed marker
\* that it can read and whose transcript exists makes the session watched; and
\* no step drops a watched session that the current scan listed.
C34_ScanTracksMarkers ==
  /\ [](ScanDone => WatchedIds(daemon.watchedSessions) \subseteq obs.listed)
  /\ [][(/\ Busy /\ NextTask.op = "discover"
         /\ daemon'.running /\ daemon'.todo # daemon.todo
         /\ NextTask.sid \in DOMAIN registry
         /\ registry[NextTask.sid] \in DOMAIN files)
        => NextTask.sid \in WatchedIds(daemon'.watchedSessions)]_vars
  /\ [][(daemon.running /\ daemon'.running)
        => (WatchedIds(daemon.watchedSessions) \cap obs'.listed)
             \subseteq WatchedIds(daemon'.watchedSessions)]_vars

\* A scan has completed that tracks again a session ended before.
C34_Witness ==
  /\ Idle
  /\ WatchedIds(daemon.watchedSessions) = {"s1"}
  /\ obs.listed = {"s1"}
  /\ HasSession(db, "s1") /\ db.sessions["s1"].end_time # NULL

\* C35 (as claimed): while a daemon process is in its poll loop or in its
\* shutdown before removePidFile, the liveness file exists and holds its pid.
C35_LivenessFileOfLiveDaemon ==
  \A pid \in Pids :
    os.procs[pid] \in {"polling", "stopping"} => os.pidFile = Some(pid)

\* C36 (as claimed): when a start-signal handler finishes after writing the
\* marker of its session, a daemon process exists that has a registry scan
\* still to run: one that polls, or one spawned or starting that has its
\* initial scan ahead.  (A daemon in its shutdown has cleared its timer and
\* scans no more.)
C36_HandlerLeavesScanner ==
  [][(/\ out' # NULL /\ out' # out
      /\ out'[1].cmd = "session-start" /\ out'[1].clean /\ out'[1].exit = 0
      /\ out'[1].sid # "" /\ out'[1].path # ""
      /\ out'[1].sid \in DOMAIN registry')
     => \E pid \in Pids : os'.procs[pid] \in {"spawned", "starting", "polling"}]_vars

\* C39: a start signal without session id or transcript path, or whose input
\* cannot be parsed, changes neither the registry nor the set of processes;
\* an end signal without session id changes no marker.
C39_InvalidSignalsFrame ==
  [][(out' # NULL /\ out' # out /\ out'[1].cmd \in {"session-start", "session-end"})
     => /\ (out'[1].cmd = "session-start" /\ (out'[1].sid = "" \/ out'[1].path = ""))
             => (registry' = registry /\ os'.procs = os.procs)
        /\ (out'[1].cmd = "session-end" /\ out'[1].sid = "")
             => registry' = registry]_vars

\* A start signal naming a session but no transcript was handled while a
\* daemon polled and the marker of another session was in place.
C39_Witness ==
  /\ out # NULL /\ out[1].cmd = "session-start" /\ out[1].exit = 0
  /\ out[1].sid = "s1" /\ out[1].path = ""
  /\ DOMAIN registry = {"s2"}
  /\ \E pid \in Pids : os.procs[pid] = "polling"

\* C37 (as claimed): a step sets the end_time of a session row only when the
\* marker of that session is gone, or was found gone by the scan under way.
C37_EndOnlyUnregistered ==
  [][\A s \in SessionIds :
       (/\ HasSession(db', s) /\ db'.sessions[s].end_time # NULL
        /\ (~HasSession(db, s) \/ db.sessions[s].end_time = NULL))
       => (s \notin DOMAIN registry \/ s \in obs.ended)]_vars

\* The user/assistant lines of the transcript p that are stored.
StoredOf(p) ==
  {i \in DOMAIN db.messages :
     \E j \in DOMAIN files[p] :
       files[p][j].part = 1 /\ files[p][j].line.uuid = db.messages[i].uuid}

\* C38 (as claimed): for a session this daemon has finalized, the row named
\* by the session id of its transcript (the one discovery upserts) has its
\* end_time set, and when messages of the transcript are stored the row named
\* by the marker's id exists with its end_time set.
C38_FinalizedRowEnded ==
  \A s \in obs.closed :
    LET p == PathOf(s)
        metadata == IF p \in DOMAIN files THEN getSessionMetadata(files[p], p) ELSE NULL
    IN /\ (metadata # NULL /\ HasSession(db, metadata[1].sessionId))
            => db.sessions[metadata[1].sessionId].end_time # NULL
       /\ (p \in DOMAIN files /\ StoredOf(p) # {})
            => (HasSession(db, s) /\ db.sessions[s].end_time # NULL)

\* C40: a stored offset never exceeds the length of its transcript, and a
\* processTranscript run that completes on a transcript longer than the
\* stored offset leaves the offset equal to the length it read.
C40_OffsetWithinFile ==
  /\ [](\A p \in DOMAIN db.file_positions :
          p \in DOMAIN files /\ db.file_positions[p] <= Len(files[p]))
  /\ [][(/\ Busy
         /\ NextTask.op \in {"initial", "process", "finalize", "shutdownSession"}
         /\ daemon' # daemon /\ crashes' = crashes
         /\ NextTask.path \in DOMAIN files
         /\ Len(files[NextTask.path]) > getFilePosition(db, NextTask.path))
        => getFilePosition(db', NextTask.path) = Len(files[NextTask.path])]_vars

\* A transcript of two lines has been read to its end, both lines stored and
\* the offset at its length.
C40_Witness ==
  \E p \in DOMAIN files :
    /\ Len(files[p]) = 6
    /\ getFilePosition(db, p) = 6
    /\ obs.lastRun[p] # NULL /\ obs.lastRun[p][1].size = 6
    /\ obs.partial = {} /\ crashes = 0
    /\ Len(db.messages) = 2

====
